---- MODULE Spec2Model ----
(* Model of the diself gateway session machine (src/gateway/gateway.rs),     *)
(* its transport (src/gateway/connection.rs) and the client event loop       *)
(* (src/client/client.rs: Client::start / Client::shutdown), the dispatcher   *)
(* (Client::handle_event), the Collector Hub with one collector              *)
(* (src/client/collectors.rs) and the user part of the Cache                 *)
(* (src/cache/cache.rs, src/cache/users.rs).                                 *)
(*                                                                           *)
(* Time is discrete.  The heartbeat timer is a tokio Interval: it is         *)
(* represented by the number of time units left until its next tick, and a   *)
(* freshly created Interval has 0 left (its first tick completes at once).   *)
EXTENDS Integers, Sequences, FiniteSets, TLC

(* ------------------------------ bounds ----------------------------------- *)
\* largest heartbeat_interval a HELLO carries, in time units
MaxInterval == 2
\* largest sequence number "s" an inbound frame carries
MaxSeq == 2
\* number of distinct session ids a READY can carry
MaxSession == 1
\* number of distinct user ids the Cache is offered
MaxUsers == 3
\* largest number of elements in the "users" array of a READY
MaxReadyUsers == 1
\* cap on consecutive failed handshake attempts (reconnect_attempts is a u32)
MaxAttempts == 2
\* the same cap where only the first connect runs and its back-off is studied
MaxBackoffAttempts == 8
\* the jitter drawn is one of the JitterSteps + 1 evenly spaced points of its range
JitterSteps == 2
\* number of dispatch frames that arrive while the Collector Hub is studied
MaxEvents == 3
\* capacity of the hub's broadcast channel (256 in the source, scaled down)
BroadcastCapacity == 1
\* the time limit D a collector is created with, in time units
MaxWindow == 1
\* largest item limit N a collector is created with
MaxItems == 1

\* Option<T>: None, or Some(x) holding x
None == <<>>
Some(x) == <<x>>
Val(o) == o[1]

Intervals == 1..MaxInterval
SeqVals == 1..MaxSeq
SessionIds == 1..MaxSession
Opt(S) == {None} \cup {Some(x) : x \in S}
\* model::User, by its id and its username
UserIds == 1..MaxUsers
Usernames == {"old", "new"}
Users == [id : UserIds, username : Usernames]
\* the url READY supplies, after format!("{url}/?v=10&encoding=json")
ResumeUrl == "resume_url"
DEFAULT_GATEWAY_URL == "default_url"

VARIABLES
    \* ---- struct Gateway ----
    connection,              \* Option<Connection>
    heartbeat,               \* Option<Interval>: the time left to its next tick
    heartbeat_interval_ms,
    awaiting_heartbeat_ack,
    pending_heartbeat,
    sequence,                \* Option<u64>
    session_id,              \* Option<String>
    resume_gateway_url,      \* Option<String>
    reconnect_attempts,
    \* ---- position of the Gateway's future ----
    gpc,                     \* "idle" | "top" | "select" | "inv_sleep" | "reconnect" | "err"
    prefer_resume,           \* argument of reconnect (can_resume while in inv_sleep)
    use_resume,              \* local of reconnect (both FALSE once reconnect returned)
    cause,                   \* what began the running reconnect ("none": none runs)
    \* ---- struct Client and Client::start ----
    shutdown_requested,      \* AtomicBool
    notified,                \* the Notified future of the select: "none" | "armed" | "fired"
    cpc,                     \* "init" | "connect" | "top" | "checked" | "wait" | "handle" | "done"
    result,                  \* what start returned: "none" | "ok" | "err"
    spc,                     \* the caller of Client::shutdown: "idle" | "stored" | "done"
    \* ---- observation (history) ----
    last_sent,               \* the last outbound payload and the state it was sent in
    hb_age,                  \* time since the oldest unacknowledged heartbeat was sent
    tries,                   \* handshake attempts made so far by the running reconnect
    resumes,                 \* those of them that sent a resume
    inv_pending,             \* an op 9 d=false was processed and nothing sent since
    max_s,                   \* largest "s" processed in this session while its "s"
                             \* values were strictly increasing (0: none yet), else -1
    wait,                    \* the last back-off slept by the running reconnect, in ms
    \* ---- Client::start and Client::handle_event ----
    event,                   \* Option: the payload next_event returned, until handled
    calls,                   \* what handle_event did with the payload last handled
    handler_seen,            \* Option: "s" of the event a recording EventHandler was last
                             \* passed by on_dispatch (0: none yet); None: default handler
    \* ---- one collector of the CollectorHub ----
    rx,                      \* Option: its broadcast Receiver [buf, lagged]; None: dropped
    task,                    \* its spawned task and the locals of the task
    out,                     \* its output channel and the consumer's end of it; history:
                             \* last (the item next() last returned), after_drop (an
                             \* event was broadcast to it since the consumer dropped it)
    age,                     \* time since it was created
    \* ---- struct Cache (the user part) ----
    cache_users,             \* CacheConfig::cache_users, as UserCache::enabled
    users,                   \* UserCache::users: id -> Option<User>
    current_user             \* Option<User>

gw == <<connection, heartbeat, heartbeat_interval_ms, awaiting_heartbeat_ack,
        pending_heartbeat, sequence, session_id, resume_gateway_url,
        reconnect_attempts>>
ctl == <<gpc, prefer_resume, use_resume, cause>>
cl == <<shutdown_requested, notified, cpc, result, spc>>
obs == <<last_sent, hb_age, tries, resumes, inv_pending, max_s>>
disp == <<event, calls>>
\* the state of the one collector, and of the recording handler
aside == <<handler_seen, rx, task, out, age>>
cache == <<cache_users, users, current_user>>
vars == <<gw, ctl, cl, obs, wait, disp, aside, cache>>

NoPayload == [op |-> 0, sid |-> None, seq |-> None, at_sid |-> None, at_seq |-> None,
              ok |-> TRUE, first |-> FALSE, prefer |-> FALSE, after_inv |-> FALSE]

(* ------------------------------ frames ----------------------------------- *)
OptSeq == Opt(SeqVals)

\* inbound text frames, already decoded by Connection::receive
Frames ==
    [op : {0}, t : {"READY"}, s : OptSeq, sid : Opt(SessionIds),
     url : {Some(ResumeUrl)}, d : {None}]
    \cup [op : {0}, t : {"RESUMED", "MESSAGE_CREATE", "none"}, s : OptSeq,
          sid : {None}, url : {None}, d : {None}]
    \cup [op : {9}, t : {"none"}, s : OptSeq, sid : {None}, url : {None},
          d : Opt(BOOLEAN)]
    \cup [op : {1, 7, 10, 11, 99}, t : {"none"}, s : OptSeq, sid : {None},
          url : {None}, d : {None}]

(* ------------------------------ Gateway ---------------------------------- *)
\* faulty variant of can_resume that forgets the sequence (C6 rejects it)
CanResumeOnlySession(sid, seq) == sid # None

\* Gateway::can_resume, on the given field values
can_resume(sid, seq) == sid # None /\ seq # None

\* faulty variant of SeqAfter that keeps the first sequence (C5 rejects it)
SeqAfterFirstOnly(p) == IF p.s # None /\ sequence = None THEN p.s ELSE sequence

\* next_event: "if let Some(seq) = payload.get("s").as_u64() { self.sequence = Some(seq) }"
SeqAfter(p) == IF p.s # None THEN p.s ELSE sequence

\* no collector was created
NoTask == [pc |-> "none", kind |-> "none", time |-> None, max |-> None, collected |-> 0,
           deadline |-> None]
NoOut == [q |-> <<>>, dropped |-> FALSE, closed |-> FALSE, last |-> 0, after_drop |-> FALSE]

\* Client::new and the start of the program, before Client::start runs
InitState ==
    /\ connection = None
    /\ heartbeat = None
    /\ heartbeat_interval_ms = 0
    /\ awaiting_heartbeat_ack = FALSE
    /\ pending_heartbeat = FALSE
    /\ sequence = None
    /\ session_id = None
    /\ resume_gateway_url = None
    /\ reconnect_attempts = 0
    /\ gpc = "idle"
    /\ prefer_resume = FALSE
    /\ use_resume = FALSE
    /\ cause = "none"
    /\ shutdown_requested = FALSE
    /\ notified = "none"
    /\ cpc = "init"
    /\ result = "none"
    /\ spc = "idle"
    /\ last_sent = NoPayload
    /\ hb_age = 0
    /\ tries = 0
    /\ resumes = 0
    /\ inv_pending = FALSE
    /\ max_s = 0
    /\ wait = 0
    /\ event = None
    /\ calls = <<>>
    /\ rx = None
    /\ task = NoTask
    /\ out = NoOut
    /\ age = 0
    /\ users = [id \in UserIds |-> None]
    /\ current_user = None

\* the application's EventHandler keeps the default (empty) on_dispatch
\* and Client::new builds it with Cache::new(), every cache enabled
Init == InitState /\ handler_seen = None /\ cache_users = TRUE

\* the Gateway's future is polled only inside Gateway::connect and inside the
\* select of Client::start
Polled == cpc \in {"connect", "wait"}

\* faulty variant of ReconnectDrops that keeps the old Connection (C30 rejects it)
ReconnectKeeps(c) == c

\* reconnect, first statement: "self.connection = None" drops the Connection
\* held, which closes its socket
ReconnectDrops(c) == None

\* reconnect, up to its loop: drop connection and timer, clear the flags,
\* decide use_resume from the (already updated) session fields
ReconnectBegin(prefer, sid, seq, why) ==
    /\ connection' = ReconnectDrops(connection)
    /\ heartbeat' = None
    /\ awaiting_heartbeat_ack' = FALSE
    /\ pending_heartbeat' = FALSE
    /\ prefer_resume' = prefer
    /\ use_resume' = (prefer /\ can_resume(sid, seq))
    /\ gpc' = "reconnect"
    /\ cause' = why
    /\ hb_age' = 0
    /\ tries' = 0
    /\ resumes' = 0

\* faulty variant of SessionUrl that forgets the resume URL (C38 rejects it)
SessionUrlDefault == DEFAULT_GATEWAY_URL

\* open_session: the url of Connection::connect
SessionUrl == IF resume_gateway_url # None THEN Val(resume_gateway_url) ELSE DEFAULT_GATEWAY_URL

\* an outbound handshake payload (op 2 / op 6) as handed to Connection::send,
\* with the session fields it was sent under; ok: the send returned Ok
Sent(op, psid, pseq, ok) ==
    [op |-> op, sid |-> psid, seq |-> pseq, at_sid |-> session_id, at_seq |-> sequence,
     ok |-> ok, first |-> (tries = 0), prefer |-> prefer_resume,
     after_inv |-> inv_pending]

\* send_identify: {"op": 2, "d": Identify::new(token)}
send_identify(ok) == Sent(2, None, None, ok)

\* send_resume: {"op": 6, "d": {token, session_id, seq}}
send_resume(ok) == Sent(6, session_id, sequence, ok)

\* faulty variant of HandshakePayload with the branches swapped (C11 rejects it)
HandshakePayloadSwapped(resume, ok) == IF resume THEN send_identify(ok) ELSE send_resume(ok)

\* open_session: "if resume { send_resume } else { send_identify }"
HandshakePayload(resume, ok) == IF resume THEN send_resume(ok) ELSE send_identify(ok)

\* faulty variant of UseResumeAfterFailure that keeps resuming (C7 rejects it)
KeepResumeAfterFailure(u) == u

\* reconnect: "if use_resume { use_resume = false }" after a failed attempt
UseResumeAfterFailure(u) == FALSE

\* MAX_RECONNECT_BACKOFF = Duration::from_secs(60), in seconds
MAX_RECONNECT_BACKOFF == 60

Min(a, b) == IF a <= b THEN a ELSE b

\* faulty variant of Capped that stops doubling one step early (C13 rejects it)
CappedAtFive(attempt) == Min(attempt, 5)

\* backoff_with_jitter: "let capped = attempt.min(6)"
Capped(attempt) == Min(attempt, 6)

\* backoff_with_jitter: base = from_secs(2.saturating_pow(capped)).min(MAX_RECONNECT_BACKOFF),
\* in milliseconds
backoff_base_ms(attempt) == Min((2 ^ Capped(attempt)) * 1000, MAX_RECONNECT_BACKOFF * 1000)

\* backoff_with_jitter: max_jitter_ms = base.as_millis() / 5
max_jitter_ms(attempt) == backoff_base_ms(attempt) \div 5

\* the values gen_range(0..=max_jitter_ms) is sampled at: j indexes the evenly
\* spaced points of the range, both ends included
JitterChoices == 0..JitterSteps
jitter_ms(attempt, j) == (j * max_jitter_ms(attempt)) \div JitterSteps

\* backoff_with_jitter(attempt) with the jitter drawn at point j, in milliseconds
backoff_with_jitter(attempt, j) == backoff_base_ms(attempt) + jitter_ms(attempt, j)

\* reconnect, top of its loop: "if self.reconnect_attempts > 0 { sleep(backoff) }";
\* the time slept before the attempt (0: no sleep, and then no jitter is drawn)
BackoffSlept(j) ==
    IF reconnect_attempts > 0 THEN backoff_with_jitter(reconnect_attempts, j) ELSE 0

\* faulty variant of AttemptsAfterSuccess that keeps the count (C14 rejects it)
AttemptsKeptAfterSuccess == reconnect_attempts

\* reconnect, Ok(()) arm: "self.reconnect_attempts = 0"
AttemptsAfterSuccess == 0

\* One failed pass of reconnect's loop: the back-off sleep, then open_session
\* returning Err.  why = "connect": Connection::connect failed; "hello": the
\* first frame was missing, not op 10, or had no integer heartbeat_interval;
\* "send": HELLO was fine and the send of identify/resume failed.
\* reconnect_attempts.saturating_add(1) is modelled below the cap only.
FailedAttempt(cap, why, I, j) ==
    /\ Polled
    /\ gpc = "reconnect"
    /\ reconnect_attempts < cap
    /\ reconnect_attempts = 0 => j = 0
    /\ wait' = BackoffSlept(j)
    /\ reconnect_attempts' = reconnect_attempts + 1
    /\ use_resume' = UseResumeAfterFailure(use_resume)
    /\ tries' = tries + 1
    /\ IF why = "send"
       THEN /\ heartbeat_interval_ms' = I
            /\ last_sent' = HandshakePayload(use_resume, FALSE)
            /\ resumes' = IF use_resume THEN resumes + 1 ELSE resumes
            /\ inv_pending' = FALSE
       ELSE UNCHANGED <<heartbeat_interval_ms, last_sent, resumes, inv_pending>>
    /\ UNCHANGED <<connection, heartbeat, awaiting_heartbeat_ack, pending_heartbeat,
                   sequence, session_id, resume_gateway_url, gpc, prefer_resume,
                   cause, cl, hb_age, max_s>>
    /\ UNCHANGED <<event, calls, aside>>
    /\ UNCHANGED cache

\* a failed pass while the session machine is studied
AttemptFails(why, I, j) == FailedAttempt(MaxAttempts, why, I, j)

\* open_session: what "connection.receive().await?" yields on the new
\* connection: None (closed before any frame), or a frame with its opcode
\* and its d.heartbeat_interval (None: absent or not an integer)
FirstFrames ==
    {None} \cup {Some([op |-> o, heartbeat_interval |-> i]) : o \in {0, 10}, i \in Opt(Intervals)}

\* faulty variant of HelloAccepted that forgets the opcode check (C31 rejects it)
HelloAnyOpAccepted(f) == f # None /\ Val(f).heartbeat_interval # None

\* open_session: ".ok_or(InvalidPayload)?", "hello.get("op") != Some(10)" and
\* "heartbeat_interval.as_u64().ok_or(InvalidPayload)?" all pass
HelloAccepted(f) ==
    /\ f # None
    /\ Val(f).op = 10
    /\ Val(f).heartbeat_interval # None

\* A failed pass whose Connection::connect succeeded and whose first frame
\* was f: open_session stops at the HELLO checks, or goes on to store the
\* interval and fails in the send of identify/resume.
HandshakeFails(f, j) ==
    IF HelloAccepted(f)
    THEN AttemptFails("send", Val(Val(f).heartbeat_interval), j)
    ELSE AttemptFails("hello", heartbeat_interval_ms, j)

\* faulty variant of PendingAfterHandshake that asks for no heartbeat (C36 rejects it)
NotPendingAfterHandshake == FALSE

\* open_session, before Ok(()): "self.pending_heartbeat = true"
PendingAfterHandshake == TRUE

\* The pass of reconnect's loop in which open_session returns Ok: HELLO with
\* interval I, identify or resume sent, connection and a new Interval stored.
\* Gateway::connect then returns to Client::start, which enters its loop.
AttemptSucceeds(I, j) ==
    /\ Polled
    /\ gpc = "reconnect"
    /\ reconnect_attempts = 0 => j = 0
    /\ wait' = 0
    /\ heartbeat_interval_ms' = I
    /\ last_sent' = HandshakePayload(use_resume, TRUE)
    /\ resumes' = IF use_resume THEN resumes + 1 ELSE resumes
    /\ inv_pending' = FALSE
    /\ connection' = Some(1)
    /\ heartbeat' = Some(0)
    /\ awaiting_heartbeat_ack' = FALSE
    /\ pending_heartbeat' = PendingAfterHandshake
    /\ reconnect_attempts' = AttemptsAfterSuccess
    /\ cause' = "none"
    /\ hb_age' = 0
    /\ tries' = tries
    /\ max_s' = IF use_resume THEN max_s ELSE 0
    /\ IF cpc = "connect"
       THEN gpc' = "idle" /\ cpc' = "top"
       ELSE gpc' = "top" /\ cpc' = cpc
    /\ prefer_resume' = FALSE
    /\ use_resume' = FALSE
    /\ UNCHANGED <<sequence, session_id, resume_gateway_url, shutdown_requested, notified,
                   result, spc>>
    /\ UNCHANGED <<event, calls, aside>>
    /\ UNCHANGED cache

\* next_event returns Err: "event?" makes Client::start return it
NextEventErr ==
    /\ gpc' = "idle"
    /\ cpc' = "done"
    /\ result' = "err"
    /\ notified' = "none"
    /\ UNCHANGED <<shutdown_requested, spc>>

\* next_event, top of the loop with pending_heartbeat: send_heartbeat
\* ({"op": 1, "d": sequence}) succeeds
SendHeartbeat ==
    /\ Polled
    /\ gpc = "top"
    /\ pending_heartbeat
    /\ last_sent' = [NoPayload EXCEPT !.op = 1, !.seq = sequence, !.at_seq = sequence,
                                      !.after_inv = inv_pending]
    /\ inv_pending' = FALSE
    /\ awaiting_heartbeat_ack' = TRUE
    /\ pending_heartbeat' = FALSE
    /\ hb_age' = IF awaiting_heartbeat_ack THEN hb_age ELSE 0
    /\ gpc' = "select"
    /\ UNCHANGED <<connection, heartbeat, heartbeat_interval_ms, sequence, session_id,
                   resume_gateway_url, reconnect_attempts, prefer_resume, use_resume, cause,
                   cl, tries, resumes, max_s>>
    /\ UNCHANGED <<wait, event, calls, aside>>
    /\ UNCHANGED cache

\* send_heartbeat: connection.send fails, "?" returns the error from next_event
SendHeartbeatFails ==
    /\ Polled
    /\ gpc = "top"
    /\ pending_heartbeat
    /\ NextEventErr
    /\ UNCHANGED <<gw, prefer_resume, use_resume, cause, obs>>
    /\ UNCHANGED <<wait, event, calls, aside>>
    /\ UNCHANGED cache

\* next_event, top of the loop without pending_heartbeat: go on to the select
EnterSelect ==
    /\ Polled
    /\ gpc = "top"
    /\ ~pending_heartbeat
    /\ gpc' = "select"
    /\ UNCHANGED <<gw, prefer_resume, use_resume, cause, cl, obs>>
    /\ UNCHANGED <<wait, event, calls, aside>>
    /\ UNCHANGED cache

\* faulty variant of TickTimesOut that never sees the missing ack (C3 rejects it)
TickNeverTimesOut == FALSE

\* next_event, timer branch: "if self.awaiting_heartbeat_ack"
TickTimesOut == awaiting_heartbeat_ack

\* next_event, "_ = heartbeat.tick() =>": reconnect on a missing ack, else ask
\* for a heartbeat; the Interval's next tick is one period later
HeartbeatTick ==
    /\ Polled
    /\ gpc = "select"
    /\ heartbeat = Some(0)
    /\ IF TickTimesOut
       THEN /\ ReconnectBegin(TRUE, session_id, sequence, "tick")
            /\ UNCHANGED <<heartbeat_interval_ms, sequence, session_id, resume_gateway_url,
                           reconnect_attempts>>
       ELSE /\ pending_heartbeat' = TRUE
            /\ heartbeat' = Some(heartbeat_interval_ms)
            /\ gpc' = "top"
            /\ UNCHANGED <<connection, heartbeat_interval_ms, awaiting_heartbeat_ack,
                           sequence, session_id, resume_gateway_url, reconnect_attempts,
                           prefer_resume, use_resume, cause, hb_age, tries, resumes>>
    /\ UNCHANGED <<cl, last_sent, inv_pending, max_s>>
    /\ UNCHANGED <<wait, event, calls, aside>>
    /\ UNCHANGED cache

\* next_event, "payload = connection.receive()" yields Ok(None): close frame or
\* end of stream
ReceiveClosed ==
    /\ Polled
    /\ gpc = "select"
    /\ connection # None
    /\ ReconnectBegin(TRUE, session_id, sequence, "closed")
    /\ UNCHANGED <<heartbeat_interval_ms, sequence, session_id, resume_gateway_url,
                   reconnect_attempts, cl, last_sent, inv_pending, max_s>>
    /\ UNCHANGED <<wait, event, calls, aside>>
    /\ UNCHANGED cache

\* Connection::receive returns Err (transport error "msg?", or serde_json
\* failing on a malformed text frame): "payload?" returns it from next_event
ReceiveError ==
    /\ Polled
    /\ gpc = "select"
    /\ connection # None
    /\ NextEventErr
    /\ UNCHANGED <<gw, prefer_resume, use_resume, cause, obs>>
    /\ UNCHANGED <<wait, event, calls, aside>>
    /\ UNCHANGED cache

\* history of the "s" values processed in this session
SeenSeq(p) ==
    IF p.s # None
    THEN max_s' = IF max_s >= 0 /\ Val(p.s) > max_s THEN Val(p.s) ELSE -1
    ELSE UNCHANGED max_s

\* a text frame p was received in the select of next_event
Received(p) ==
    /\ Polled
    /\ gpc = "select"
    /\ connection # None
    /\ SeenSeq(p)

\* faulty variant of Surfaces that also returns unknown opcodes (C15 rejects it)
SurfacesUnknownToo(op) == op \in {0, 99}

\* handle_control_opcode: the one arm that ends in Ok(Some(payload.clone()))
Surfaces(op) == op = 0

\* handle_control_opcode, Some(0): READY stores session_id and the resume url
\* (each None when the field is no string); the payload is returned to
\* Client::start, which drops both futures of its select and handles it
ReceiveDispatch(p) ==
    /\ Surfaces(p.op)
    /\ Received(p)
    /\ event' = Some(p)
    /\ sequence' = SeqAfter(p)
    /\ IF p.t = "READY"
       THEN session_id' = p.sid /\ resume_gateway_url' = p.url
       ELSE UNCHANGED <<session_id, resume_gateway_url>>
    /\ gpc' = "idle"
    /\ cpc' = "handle"
    /\ notified' = "none"
    /\ UNCHANGED <<connection, heartbeat, heartbeat_interval_ms, awaiting_heartbeat_ack,
                   pending_heartbeat, reconnect_attempts, prefer_resume, use_resume, cause,
                   shutdown_requested, result, spc, last_sent, hb_age, tries, resumes,
                   inv_pending>>
    /\ UNCHANGED <<wait, calls, aside>>
    /\ UNCHANGED cache

\* faulty variant of RequestsHeartbeat that answers a HELLO as well (C28 rejects it)
HelloRequestsHeartbeat(op) == op \in {1, 10}

\* handle_control_opcode: the arm that sets pending_heartbeat is Some(1)
RequestsHeartbeat(op) == op = 1

\* faulty variant of HeartbeatRequested that leaves the flag alone (C32 rejects it)
HeartbeatRequestForgotten(pending) == pending

\* handle_control_opcode, Some(1): "self.pending_heartbeat = true"
HeartbeatRequested(pending) == TRUE

\* handle_control_opcode, Some(1): heartbeat request
ReceiveHeartbeatRequest(p) ==
    /\ RequestsHeartbeat(p.op)
    /\ Received(p)
    /\ sequence' = SeqAfter(p)
    /\ pending_heartbeat' = HeartbeatRequested(pending_heartbeat)
    /\ gpc' = "top"
    /\ UNCHANGED <<connection, heartbeat, heartbeat_interval_ms, awaiting_heartbeat_ack,
                   session_id, resume_gateway_url, reconnect_attempts, prefer_resume,
                   use_resume, cause, cl, last_sent, hb_age, tries, resumes, inv_pending>>
    /\ UNCHANGED <<wait, event, calls, aside>>
    /\ UNCHANGED cache

\* handle_control_opcode, Some(7): reconnect request
ReceiveReconnect(p) ==
    /\ p.op = 7
    /\ Received(p)
    /\ sequence' = SeqAfter(p)
    /\ ReconnectBegin(TRUE, session_id, SeqAfter(p), "op7")
    /\ UNCHANGED <<heartbeat_interval_ms, session_id, resume_gateway_url,
                   reconnect_attempts, cl, last_sent, inv_pending>>
    /\ UNCHANGED <<wait, event, calls, aside>>
    /\ UNCHANGED cache

\* faulty variant of InvalidSessionKeeps that always clears (C29 rejects it)
InvalidSessionClearsAlways(can, v) == None

\* faulty variant of InvalidSessionKeeps that never clears (C4 rejects it)
InvalidSessionKeepsAlways(can, v) == v

\* handle_control_opcode, Some(9): "if !can_resume { session_id = None; sequence = None }"
InvalidSessionKeeps(can, v) == IF can THEN v ELSE None

\* handle_control_opcode, Some(9): can_resume = d.as_bool().unwrap_or(false);
\* the fields are cleared when it is false, then the fixed sleep begins
ReceiveInvalidSession(p) ==
    /\ p.op = 9
    /\ Received(p)
    /\ LET can == (p.d = Some(TRUE)) IN
         /\ session_id' = InvalidSessionKeeps(can, session_id)
         /\ sequence' = InvalidSessionKeeps(can, SeqAfter(p))
         /\ prefer_resume' = can
         /\ inv_pending' = ~can
    /\ gpc' = "inv_sleep"
    /\ UNCHANGED <<connection, heartbeat, heartbeat_interval_ms, awaiting_heartbeat_ack,
                   pending_heartbeat, resume_gateway_url, reconnect_attempts, use_resume, cause,
                   cl, last_sent, hb_age, tries, resumes>>
    /\ UNCHANGED <<wait, event, calls, aside>>
    /\ UNCHANGED cache

\* handle_control_opcode, Some(9), after sleep(INVALID_SESSION_RETRY_DELAY):
\* self.reconnect(can_resume)
InvalidSessionWake ==
    /\ Polled
    /\ gpc = "inv_sleep"
    /\ ReconnectBegin(prefer_resume, session_id, sequence, "op9")
    /\ UNCHANGED <<heartbeat_interval_ms, sequence, session_id, resume_gateway_url,
                   reconnect_attempts, cl, last_sent, inv_pending, max_s>>
    /\ UNCHANGED <<wait, event, calls, aside>>
    /\ UNCHANGED cache

\* faulty variant of AfterAck that flips the flag (C25 rejects it)
AfterAckFlipped(awaiting) == ~awaiting

\* handle_control_opcode, Some(11): "self.awaiting_heartbeat_ack = false"
AfterAck(awaiting) == FALSE

\* handle_control_opcode, Some(11): heartbeat ack
ReceiveAck(p) ==
    /\ p.op = 11
    /\ Received(p)
    /\ sequence' = SeqAfter(p)
    /\ awaiting_heartbeat_ack' = AfterAck(awaiting_heartbeat_ack)
    /\ hb_age' = 0
    /\ gpc' = "top"
    /\ UNCHANGED <<connection, heartbeat, heartbeat_interval_ms, pending_heartbeat,
                   session_id, resume_gateway_url, reconnect_attempts, prefer_resume,
                   use_resume, cause, cl, last_sent, tries, resumes, inv_pending>>
    /\ UNCHANGED <<wait, event, calls, aside>>
    /\ UNCHANGED cache

\* handle_control_opcode, Some(10) and "_": nothing but the sequence update
ReceiveIgnored(p) ==
    /\ p.op \in {10, 99}
    /\ Received(p)
    /\ sequence' = SeqAfter(p)
    /\ gpc' = "top"
    /\ UNCHANGED <<connection, heartbeat, heartbeat_interval_ms, awaiting_heartbeat_ack,
                   pending_heartbeat, session_id, resume_gateway_url, reconnect_attempts,
                   prefer_resume, use_resume, cause, cl, last_sent, hb_age, tries, resumes,
                   inv_pending>>
    /\ UNCHANGED <<wait, event, calls, aside>>
    /\ UNCHANGED cache

\* faulty variant of ShutdownDropsTimer that keeps the Interval (C37 rejects it)
ShutdownKeepsTimer(h) == h

\* Gateway::shutdown: "self.heartbeat = None"
ShutdownDropsTimer(h) == None

\* Gateway::shutdown: flags cleared, timer and connection dropped; the result
\* is that of connection.close()
GatewayShutdown(closed_ok) ==
    /\ awaiting_heartbeat_ack' = FALSE
    /\ pending_heartbeat' = FALSE
    /\ heartbeat' = ShutdownDropsTimer(heartbeat)
    /\ connection' = None
    /\ hb_age' = 0
    /\ gpc' = "idle"
    /\ cpc' = "done"
    /\ notified' = "none"
    /\ result' = IF connection = None \/ closed_ok THEN "ok" ELSE "err"
    /\ UNCHANGED <<heartbeat_interval_ms, sequence, session_id, resume_gateway_url,
                   reconnect_attempts, prefer_resume, use_resume, cause, shutdown_requested,
                   spc, last_sent, tries, resumes, inv_pending, max_s>>

\* Gateway::next_event called again on a Gateway that Gateway::shutdown has
\* left without timer (by an application that keeps the Gateway): nothing is
\* pending, and "self.heartbeat.as_mut().ok_or(Error::InvalidPayload)?"
\* returns the error before anything is awaited (gpc = "err": that call
\* has returned Err)
NextEventAfterShutdown ==
    /\ cpc = "done"
    /\ gpc = "idle"
    /\ ~pending_heartbeat
    /\ heartbeat = None
    /\ gpc' = "err"
    /\ UNCHANGED <<gw, prefer_resume, use_resume, cause, cl, obs>>
    /\ UNCHANGED <<wait, event, calls, aside>>
    /\ UNCHANGED cache

(* ------------------------------ Client ----------------------------------- *)
\* Client::start up to Gateway::connect: the flag is reset, the Gateway is
\* built and its first reconnect(true) begins
Start ==
    /\ cpc = "init"
    /\ shutdown_requested' = FALSE
    /\ cpc' = "connect"
    /\ ReconnectBegin(TRUE, session_id, sequence, "connect")
    /\ UNCHANGED <<heartbeat_interval_ms, sequence, session_id, resume_gateway_url,
                   reconnect_attempts, notified, result, spc, last_sent,
                   inv_pending, max_s>>
    /\ UNCHANGED <<wait, event, calls, aside>>
    /\ UNCHANGED cache

\* Client::start, top of the loop, flag read as true: shut down and break
LoopTopShutdown(closed_ok) ==
    /\ cpc = "top"
    /\ shutdown_requested
    /\ GatewayShutdown(closed_ok)
    /\ UNCHANGED <<wait, event, calls, aside>>
    /\ UNCHANGED cache

\* Client::start, top of the loop, flag read as false
LoopTopContinue ==
    /\ cpc = "top"
    /\ ~shutdown_requested
    /\ cpc' = "checked"
    /\ calls' = <<>>
    /\ UNCHANGED <<gw, ctl, shutdown_requested, notified, result, spc, obs>>
    /\ UNCHANGED <<wait, event, aside>>
    /\ UNCHANGED cache

\* Client::start, the select: gateway.next_event() and shutdown_notify.notified()
\* are created; the Notified future sees every notify_waiters from now on
BeginWait ==
    /\ cpc = "checked"
    /\ cpc' = "wait"
    /\ notified' = "armed"
    /\ gpc' = "top"
    /\ UNCHANGED <<gw, prefer_resume, use_resume, cause, shutdown_requested, result, spc, obs>>
    /\ UNCHANGED <<wait, event, calls, aside>>
    /\ UNCHANGED cache

\* Client::start, the select resolves by notified(): the next_event future is
\* dropped where it stands, then gateway.shutdown() and break
ShutdownObserved(closed_ok) ==
    /\ cpc = "wait"
    /\ notified = "fired"
    /\ GatewayShutdown(closed_ok)
    /\ UNCHANGED <<wait, event, calls, aside>>
    /\ UNCHANGED cache

(* ------------------------------- cache ----------------------------------- *)
\* faulty variant of insert that ignores the switch (C26 rejects it)
InsertAlways(enabled, m, user) == [m EXCEPT ![user.id] = Some(user)]

\* UserCache::insert: "if self.enabled { self.users.insert(user.id.clone(), user) }"
insert(enabled, m, user) == IF enabled THEN [m EXCEPT ![user.id] = Some(user)] ELSE m

\* UserCache::remove, the map it leaves
remove(m, user_id) == [m EXCEPT ![user_id] = None]

\* UserCache::get / Cache::user
user(m, user_id) == m[user_id]

\* UserCache::count / Cache::user_count
user_count(m) == Cardinality({id \in UserIds : m[id] # None})

\* UserCache::initialize_from_ready on an array: the elements that decode are
\* inserted in their order (None: an element that is no User)
RECURSIVE initialize_from_ready(_, _, _)
initialize_from_ready(enabled, m, data) ==
    IF data = <<>> THEN m
    ELSE initialize_from_ready(enabled,
                               IF Head(data) = None THEN m ELSE insert(enabled, m, Val(Head(data))),
                               Tail(data))

\* Cache::set_current_user, the fields it leaves
set_current_user(enabled, m, u) == [current |-> Some(u), users |-> insert(enabled, m, u)]

(* ----------------------------- dispatcher -------------------------------- *)
\* the event names DispatchEventType has a variant for
KnownEvents == {"READY", "READY_SUPPLEMENTAL", "MESSAGE_CREATE", "MESSAGE_UPDATE",
                "MESSAGE_DELETE", "MESSAGE_REACTION_ADD", "MESSAGE_REACTION_REMOVE"}

\* DispatchEvent::from_gateway_payload(event_type, sequence, data): the kind is
\* the variant of the name, Unknown for a name outside the known set
from_gateway_payload(e) ==
    [kind |-> IF e.t \in KnownEvents THEN e.t ELSE "Unknown", sequence |-> e.s, data |-> e.d]

\* faulty variant of IsDispatch that asks for a known event name (C17 rejects it)
IsKnownDispatch(e) == e.op = 0 /\ e.t \in KnownEvents

\* handle_event: "if op == Some(0)" and "if let Some(event_type) = event.get("t").as_str()"
IsDispatch(e) == e.op = 0 /\ e.t # "none"

\* the data of a dispatch decodes as what its kind asks for: a Message for
\* serde_json::from_value::<Message> and for the field reads of from_dispatch,
\* a User under "user" for READY, the two ids of MESSAGE_DELETE
Decodes(ev) == ev.data \in {Some("hit"), Some("miss")}

\* the users the payloads of the model name: the author of every Message
\* that decodes (without mentions), and the "user" of every READY that
\* carries one (with an empty "users" array)
Author == [id |-> 1, username |-> "old"]
ReadyUser == [id |-> 2, username |-> "new"]

\* faulty variant of KindCalls that runs the handler before the cache (C33 rejects it)
KindCallsHandlerFirst(ev) ==
    IF ev.kind = "READY" /\ Decodes(ev) THEN <<"on_ready", "cache.initialize">>
    ELSE IF ev.kind = "MESSAGE_CREATE" /\ Decodes(ev)
         THEN <<"on_message_create", "cache.cache_user">>
    ELSE <<>>

\* handle_event, "match dispatch_kind": the calls of each arm, in order
KindCalls(ev) ==
    IF ev.kind = "READY" /\ Decodes(ev) THEN <<"cache.initialize", "on_ready">>
    ELSE IF ev.kind = "READY_SUPPLEMENTAL" THEN <<"on_ready_supplemental">>
    ELSE IF ev.kind = "MESSAGE_CREATE" /\ Decodes(ev)
         THEN <<"cache.cache_user", "on_message_create">>
    ELSE IF ev.kind = "MESSAGE_UPDATE" /\ Decodes(ev)
         THEN <<"cache.cache_user", "on_message_update">>
    ELSE IF ev.kind = "MESSAGE_DELETE" /\ Decodes(ev) THEN <<"on_message_delete">>
    ELSE <<>>

\* handle_event, "match dispatch_kind": what the arm leaves in the cache
\* (Cache::initialize for READY, Cache::cache_user for the two message kinds)
KindCache(ev) ==
    IF ev.kind = "READY" /\ Decodes(ev)
    THEN LET set == set_current_user(cache_users, users, ReadyUser)
         IN  [current |-> set.current,
              users |-> initialize_from_ready(cache_users, set.users, <<>>)]
    ELSE IF ev.kind \in {"MESSAGE_CREATE", "MESSAGE_UPDATE"} /\ Decodes(ev)
         THEN [current |-> current_user, users |-> insert(cache_users, users, Author)]
    ELSE [current |-> current_user, users |-> users]

\* Client::handle_event: the hooks it calls for a payload, in order.  The
\* generic hook comes first; the broadcast, on_dispatch and the arm of the
\* kind need op 0 and a string "t".
HandleCalls(e) ==
    <<"on_gateway_payload">>
    \o (IF IsDispatch(e)
        THEN <<"collectors.dispatch", "on_dispatch">> \o KindCalls(from_gateway_payload(e))
        ELSE <<>>)

\* faulty variant of dispatch that closes a Receiver it overruns (C22 rejects it)
DispatchClosesLagging(r, ev) ==
    IF r = None THEN None
    ELSE IF Len(Val(r).buf) < BroadcastCapacity
         THEN Some([Val(r) EXCEPT !.buf = Append(@, ev)])
         ELSE None

\* CollectorHub::dispatch: "let _ = self.tx.send(event)".  Without a Receiver
\* the send fails and the event is dropped; a Receiver that is a full buffer
\* behind loses its oldest event and will be told that it lagged.
dispatch(r, ev) ==
    IF r = None THEN None
    ELSE IF Len(Val(r).buf) < BroadcastCapacity
         THEN Some([Val(r) EXCEPT !.buf = Append(@, ev)])
         ELSE Some([buf |-> Append(Tail(Val(r).buf), ev), lagged |-> TRUE])

\* EventHandler::on_dispatch of a handler that records the sequence number of
\* the event it is passed (the default handler has no state)
on_dispatch(seen, ev) ==
    IF seen = None THEN None
    ELSE IF ev.sequence # None THEN Some(Val(ev.sequence)) ELSE seen

\* Client::start, "self.handle_event(&ctx, event)": handle_event runs to its
\* end and returns (its error is only logged)
HandleEvent ==
    /\ cpc = "handle"
    /\ cpc' = "top"
    /\ calls' = HandleCalls(Val(event))
    /\ IF IsDispatch(Val(event))
       THEN LET ev == from_gateway_payload(Val(event)) IN
              /\ rx' = dispatch(rx, ev)
              /\ handler_seen' = on_dispatch(handler_seen, ev)
              /\ current_user' = KindCache(ev).current
              /\ users' = KindCache(ev).users
       ELSE UNCHANGED <<rx, handler_seen, current_user, users>>
    /\ out' = IF IsDispatch(Val(event)) /\ rx # None /\ out.dropped
              THEN [out EXCEPT !.after_drop = TRUE] ELSE out
    /\ event' = None
    /\ UNCHANGED <<gw, ctl, shutdown_requested, notified, result, spc, obs>>
    /\ UNCHANGED <<wait, task, age, cache_users>>

\* Client::shutdown, first statement: shutdown_requested.store(true)
ShutdownStore ==
    /\ spc = "idle"
    /\ cpc \notin {"init", "done"}
    /\ shutdown_requested' = TRUE
    /\ spc' = "stored"
    /\ UNCHANGED <<gw, ctl, notified, cpc, result, obs>>
    /\ UNCHANGED <<wait, event, calls, aside>>
    /\ UNCHANGED cache

\* Client::shutdown, second statement: shutdown_notify.notify_waiters() wakes
\* the Notified futures that exist now and stores no permit
ShutdownNotify ==
    /\ spc = "stored"
    /\ notified' = IF notified = "armed" THEN "fired" ELSE notified
    /\ spc' = "done"
    /\ UNCHANGED <<gw, ctl, shutdown_requested, cpc, result, obs>>
    /\ UNCHANGED <<wait, event, calls, aside>>
    /\ UNCHANGED cache

(* ----------------------------- collectors -------------------------------- *)
\* CollectorOptions the collector can be created with
TimeOptions == {None, Some(MaxWindow)}
MaxOptions == {None, Some(0), Some(MaxItems)}

\* faulty variant of subscribe whose Receiver starts with an event of the
\* past (C39 rejects it)
SubscribeWithBacklog ==
    [buf |-> <<[kind |-> "MESSAGE_CREATE", sequence |-> Some(0), data |-> Some("hit")]>>,
     lagged |-> FALSE]

\* "self.tx.subscribe()": a Receiver that holds nothing and sees what is sent
\* from now on
subscribe == [buf |-> <<>>, lagged |-> FALSE]

\* CollectorHub::message_collector / reaction_collector, the caller's part:
\* subscribe, make the output channel, spawn the task, return the collector
CreateCollector(kind, time, max) ==
    /\ task.pc = "none"
    /\ cpc # "init"
    /\ rx' = Some(subscribe)
    /\ task' = [pc |-> "spawned", kind |-> kind, time |-> time, max |-> max,
                collected |-> 0, deadline |-> None]
    /\ out' = NoOut
    /\ age' = 0
    /\ UNCHANGED <<gw, ctl, cl, obs, wait, disp, handler_seen>>
    /\ UNCHANGED cache

\* faulty variant of LimitReached that allows one item more (C19 rejects it)
LimitExceeded(tk) == tk.max # None /\ tk.collected > Val(tk.max)

\* the task, top of its loop: "if collected >= max { break }"
LimitReached(tk) == tk.max # None /\ tk.collected >= Val(tk.max)

\* faulty variant of DeadlinePassed that never sees the deadline (C35 rejects it)
DeadlineNeverPassed(tk) == FALSE

\* the task, top of its loop: "if Instant::now() >= deadline { break }"; the
\* deadline is kept as the time left until it
DeadlinePassed(tk) == tk.deadline # None /\ Val(tk.deadline) = 0

\* the task from the top of its loop to its next await: it ends (dropping the
\* Receiver and the output Sender) or waits in rx.recv()
LoopTop(tk) ==
    IF LimitReached(tk) \/ DeadlinePassed(tk) THEN [tk EXCEPT !.pc = "done"]
    ELSE [tk EXCEPT !.pc = "recv"]

\* the Receiver after a step that left the task in state tk
RxAfter(tk, r) == IF tk.pc = "done" THEN None ELSE Some(r)

\* the spawned task runs for the first time: the deadline is computed
\* ("options.time.map(|t| Instant::now() + t)"), collected = 0, then the loop
TaskStart ==
    /\ task.pc = "spawned"
    /\ LET tk == LoopTop([task EXCEPT !.deadline = task.time]) IN
         /\ task' = tk
         /\ rx' = RxAfter(tk, Val(rx))
    /\ UNCHANGED <<gw, ctl, cl, obs, wait, disp, handler_seen, out, age>>
    /\ UNCHANGED cache

\* faulty variant of TargetKinds that keeps every kind (C21 rejects it)
AnyKind(kind) == KnownEvents \cup {"Unknown"}

\* the kinds the collector keeps: MessageCreate, or what
\* ReactionCollectEvent::from_dispatch maps to Add / Remove
TargetKinds(kind) ==
    IF kind = "message" THEN {"MESSAGE_CREATE"}
    ELSE {"MESSAGE_REACTION_ADD", "MESSAGE_REACTION_REMOVE"}

\* faulty variant of filter that accepts every item (C24 rejects it)
FilterAcceptsAll(ev) == TRUE

\* the caller's filter: it accepts the items marked "hit"
filter(ev) == ev.data = Some("hit")

\* faulty variant of send that puts the item in front (C16 rejects it)
SendInFront(q, item) == <<item>> \o q

\* out_tx.send(item) on the unbounded output channel
send(q, item) == Append(q, item)

\* the task is polled while it waits in rx.recv() and the Receiver has
\* something: timeout_at polls rx.recv() before it looks at the deadline.
\* Lagged: continue.  An event: kind, decode and filter must pass, else
\* continue; then out_tx.send, break if the consumer is gone, collected += 1.
TaskRecv ==
    /\ task.pc = "recv"
    /\ Val(rx).lagged \/ Val(rx).buf # <<>>
    /\ IF Val(rx).lagged
       THEN /\ task' = LoopTop(task)
            /\ rx' = RxAfter(task', [Val(rx) EXCEPT !.lagged = FALSE])
            /\ out' = out
       ELSE LET ev == Head(Val(rx).buf)
                r == [Val(rx) EXCEPT !.buf = Tail(@)]
                keep == ev.kind \in TargetKinds(task.kind) /\ Decodes(ev) /\ filter(ev)
            IN  IF ~keep
                THEN /\ task' = LoopTop(task)
                     /\ rx' = RxAfter(task', r)
                     /\ out' = out
                ELSE IF out.dropped
                THEN /\ task' = [task EXCEPT !.pc = "done"]
                     /\ rx' = None
                     /\ out' = out
                ELSE /\ task' = LoopTop([task EXCEPT !.collected = @ + 1])
                     /\ rx' = RxAfter(task', r)
                     /\ out' = [out EXCEPT !.q = send(@, Val(ev.sequence))]
    /\ UNCHANGED <<gw, ctl, cl, obs, wait, disp, handler_seen, age>>
    /\ UNCHANGED cache

\* the task is polled while it waits, the Receiver has nothing and the
\* deadline has passed: timeout_at returns Err, break
TaskTimeout ==
    /\ task.pc = "recv"
    /\ ~Val(rx).lagged /\ Val(rx).buf = <<>>
    /\ DeadlinePassed(task)
    /\ task' = [task EXCEPT !.pc = "done"]
    /\ rx' = None
    /\ UNCHANGED <<gw, ctl, cl, obs, wait, disp, handler_seen, out, age>>
    /\ UNCHANGED cache

\* MessageCollector::next / ReactionCollector::next returns Some(item)
CollectorNext ==
    /\ ~out.dropped
    /\ out.q # <<>>
    /\ out' = [out EXCEPT !.q = Tail(@), !.last = Head(out.q)]
    /\ UNCHANGED <<gw, ctl, cl, obs, wait, disp, handler_seen, rx, task, age>>
    /\ UNCHANGED cache

\* next returns None: the queue is empty and the task dropped the Sender
CollectorClosed ==
    /\ ~out.dropped
    /\ ~out.closed
    /\ out.q = <<>>
    /\ task.pc = "done"
    /\ out' = [out EXCEPT !.closed = TRUE]
    /\ UNCHANGED <<gw, ctl, cl, obs, wait, disp, handler_seen, rx, task, age>>
    /\ UNCHANGED cache

\* the consumer drops the collector, and with it the output Receiver
CollectorDrop ==
    /\ task.pc # "none"
    /\ ~out.dropped
    /\ ~out.closed
    /\ out' = [out EXCEPT !.dropped = TRUE, !.q = <<>>]
    /\ UNCHANGED <<gw, ctl, cl, obs, wait, disp, handler_seen, rx, task, age>>
    /\ UNCHANGED cache

(* -------------------------- cache operations ---------------------------- *)
\* the "users" arrays of a READY
ReadyUsers == UNION {[1..n -> Opt(Users)] : n \in 0..MaxReadyUsers}

\* Cache::cache_user(user)
CacheUser(u) ==
    /\ users' = insert(cache_users, users, u)
    /\ UNCHANGED <<gw, ctl, cl, obs, wait, disp, aside, cache_users, current_user>>

\* Cache::set_current_user(user)
SetCurrentUser(u) ==
    /\ current_user' = set_current_user(cache_users, users, u).current
    /\ users' = set_current_user(cache_users, users, u).users
    /\ UNCHANGED <<gw, ctl, cl, obs, wait, disp, aside, cache_users>>

\* Cache::initialize(data): data["user"] (None: it is no User) becomes the
\* current user, then data["users"] fills the user cache; the guild, channel
\* and relationship caches it fills as well are not part of the model
Initialize(u, data) ==
    /\ LET set == IF u = None THEN [current |-> current_user, users |-> users]
                  ELSE set_current_user(cache_users, users, Val(u))
       IN  /\ current_user' = set.current
           /\ users' = initialize_from_ready(cache_users, set.users, data)
    /\ UNCHANGED <<gw, ctl, cl, obs, wait, disp, aside, cache_users>>

\* Cache::remove_user(user_id)
RemoveUser(user_id) ==
    /\ users' = remove(users, user_id)
    /\ UNCHANGED <<gw, ctl, cl, obs, wait, disp, aside, cache_users, current_user>>

(* ------------------------------- time ------------------------------------ *)
\* one time unit passes
Elapse ==
    /\ cpc \notin {"init", "done"}
    /\ heartbeat' = IF heartbeat \notin {None, Some(0)} THEN Some(Val(heartbeat) - 1) ELSE heartbeat
    /\ hb_age' = IF awaiting_heartbeat_ack /\ hb_age < heartbeat_interval_ms THEN hb_age + 1 ELSE hb_age
    /\ age' = IF task.pc \notin {"none", "done"} /\ age <= MaxWindow THEN age + 1 ELSE age
    /\ task' = IF task.deadline \notin {None, Some(0)} /\ task.pc # "done"
               THEN [task EXCEPT !.deadline = Some(Val(@) - 1)] ELSE task
    /\ UNCHANGED <<connection, heartbeat_interval_ms, awaiting_heartbeat_ack,
                   pending_heartbeat, sequence, session_id, resume_gateway_url,
                   reconnect_attempts, ctl, cl, last_sent, tries, resumes, inv_pending,
                   max_s>>
    /\ UNCHANGED <<wait, event, calls, handler_seen, rx, out>>
    /\ UNCHANGED cache

\* frames that carry no "s" and no session data
PlainFrames == {p \in Frames : p.s = None /\ p.sid = None}

\* the steps of the Gateway's future on frames of F, and the passing of time
Gateway(F) ==
    \/ \E I \in Intervals, j \in JitterChoices : AttemptFails("connect", I, j)
    \/ \E f \in FirstFrames, j \in JitterChoices : HandshakeFails(f, j)
    \/ \E I \in Intervals, j \in JitterChoices : AttemptSucceeds(I, j)
    \/ SendHeartbeat
    \/ SendHeartbeatFails
    \/ EnterSelect
    \/ HeartbeatTick
    \/ ReceiveClosed
    \/ ReceiveError
    \/ \E p \in F : ReceiveDispatch(p)
    \/ \E p \in F : ReceiveHeartbeatRequest(p)
    \/ \E p \in F : ReceiveReconnect(p)
    \/ \E p \in F : ReceiveInvalidSession(p)
    \/ InvalidSessionWake
    \/ \E p \in F : ReceiveAck(p)
    \/ \E p \in F : ReceiveIgnored(p)
    \/ Elapse

\* Client::start while Client::shutdown is never called
Loop ==
    \/ Start
    \/ LoopTopContinue
    \/ BeginWait
    \/ HandleEvent

\* The session machine under the client loop, on every frame.
Next ==
    \/ Gateway(Frames)
    \/ Loop

Spec == Init /\ [][Next]_vars

\* The client loop with a concurrent call of Client::shutdown, on frames
\* without sequence numbers.
NextShutdown ==
    \/ Gateway(PlainFrames)
    \/ Loop
    \/ \E c \in BOOLEAN : LoopTopShutdown(c)
    \/ \E c \in BOOLEAN : ShutdownObserved(c)
    \/ ShutdownStore
    \/ ShutdownNotify
    \/ NextEventAfterShutdown

ShutdownSpec == Init /\ [][NextShutdown]_vars

\* The first Gateway::connect alone, with up to MaxBackoffAttempts failed
\* attempts in a row: the back-off of reconnect.
NextBackoff ==
    \/ Start
    \/ \E why \in {"connect", "hello", "send"}, I \in Intervals, j \in JitterChoices :
          FailedAttempt(MaxBackoffAttempts, why, I, j)
    \/ \E I \in Intervals, j \in JitterChoices : AttemptSucceeds(I, j)

BackoffSpec == Init /\ [][NextBackoff]_vars

\* dispatch frames as the hub and the collectors see them: a known kind a
\* message collector keeps, the two a reaction collector keeps, a name outside the
\* known set, and a frame without "t".  "d" is "hit" (decodes, the filter
\* accepts), "miss" (decodes, the filter rejects) or "bad" (does not decode).
HubFrames ==
    [op : {0}, t : {"MESSAGE_CREATE"}, s : {Some(n) : n \in 1..MaxEvents}, sid : {None},
     url : {None}, d : {Some("hit"), Some("miss"), Some("bad")}]
    \cup [op : {0}, t : {"MESSAGE_REACTION_ADD", "MESSAGE_REACTION_REMOVE"},
          s : {Some(n) : n \in 1..MaxEvents}, sid : {None}, url : {None}, d : {Some("hit")}]
    \cup [op : {0}, t : {"TYPING_START", "none"}, s : {Some(n) : n \in 1..MaxEvents},
          sid : {None}, url : {None}, d : {None}]

\* the server numbers the dispatch frames of a session in the order it sends them
Arrives(p) == p.s = Some(IF sequence = None THEN 1 ELSE Val(sequence) + 1)

\* the client loop on numbered dispatch frames, heartbeat interval 1
Pipeline ==
    \/ Start
    \/ AttemptSucceeds(1, 0)
    \/ LoopTopContinue
    \/ BeginWait
    \/ SendHeartbeat
    \/ EnterSelect
    \/ \E p \in HubFrames : Arrives(p) /\ ReceiveDispatch(p)
    \/ HandleEvent

\* the task of the collector and its consumer
Collector ==
    \/ TaskStart
    \/ TaskRecv
    \/ TaskTimeout
    \/ CollectorNext
    \/ CollectorClosed
    \/ CollectorDrop

\* the application's EventHandler records what on_dispatch is passed
\* and it was built by Client::new(..).without_cache(): the collectors are
\* studied apart from the cache
HubInit == InitState /\ handler_seen = Some(0) /\ cache_users = FALSE

\* The client loop with one collector of any options, a recording handler and
\* a consumer, while time passes.
NextHub ==
    \/ Pipeline
    \/ \E kind \in {"message", "reaction"}, time \in TimeOptions, max \in MaxOptions :
          CreateCollector(kind, time, max)
    \/ Collector
    \/ Elapse

HubSpec == HubInit /\ [][NextHub]_vars

\* The same with a collector that has no time limit, on a connection that may
\* close and be replaced.
NextDispatch ==
    \/ Pipeline
    \/ ReceiveClosed
    \/ \E kind \in {"message", "reaction"}, max \in MaxOptions :
          CreateCollector(kind, None, max)
    \/ TaskStart
    \/ TaskRecv
    \/ CollectorNext
    \/ CollectorClosed
    \/ CollectorDrop

DispatchSpec == HubInit /\ [][NextDispatch]_vars

\* A Cache built by Cache::with_config with the user cache on or off, under any
\* calls of its user operations.
CacheInit == InitState /\ handler_seen = None /\ cache_users \in BOOLEAN

NextCache ==
    \/ \E u \in Users : CacheUser(u)
    \/ \E u \in Users : SetCurrentUser(u)
    \/ \E u \in Opt(Users), data \in ReadyUsers : Initialize(u, data)
    \/ \E user_id \in UserIds : RemoveUser(user_id)

CacheSpec == CacheInit /\ [][NextCache]_vars

\* dispatch frames of every kind handle_event has an arm for, of a kind it
\* has none for, and without "t"; "d" decodes ("hit") or does not ("bad")
HandlerFrames ==
    [op : {0}, t : {"READY"}, s : {Some(n) : n \in 1..MaxEvents}, sid : {Some(1)},
     url : {Some(ResumeUrl)}, d : {Some("hit"), Some("bad")}]
    \cup [op : {0}, t : (KnownEvents \ {"READY"}) \cup {"TYPING_START", "none"},
          s : {Some(n) : n \in 1..MaxEvents}, sid : {None}, url : {None},
          d : {Some("hit"), Some("bad")}]

\* The client loop on dispatch frames of every kind, with the user cache on
\* or off and no collector.
NextHandler ==
    \/ Start
    \/ AttemptSucceeds(1, 0)
    \/ LoopTopContinue
    \/ BeginWait
    \/ SendHeartbeat
    \/ EnterSelect
    \/ \E p \in HandlerFrames : Arrives(p) /\ ReceiveDispatch(p)
    \/ HandleEvent

HandlerSpec == CacheInit /\ [][NextHandler]_vars

\* The client loop with one message collector that has a time limit, with or
\* without max, and a consumer that never drops it (it loops on next(), as collect() does), while time
\* passes.
NextTimed ==
    \/ Pipeline
    \/ \E max \in {None, Some(MaxItems)} : CreateCollector("message", Some(MaxWindow), max)
    \/ TaskStart
    \/ TaskRecv
    \/ TaskTimeout
    \/ CollectorNext
    \/ CollectorClosed
    \/ Elapse

\* The runtime polls a spawned task that can make progress (tokio::spawn), the
\* clock advances and wakes timeout_at, and the consumer is inside
\* rx.recv().await whenever it has nothing else to do; the gateway and the
\* dispatcher are under no obligation.
TimedSpec ==
    /\ HubInit
    /\ [][NextTimed]_vars
    /\ WF_vars(TaskStart)
    /\ WF_vars(TaskRecv)
    /\ WF_vars(TaskTimeout)
    /\ WF_vars(Elapse)
    /\ WF_vars(CollectorNext)
    /\ WF_vars(CollectorClosed)

\* frames of a session whose READY may lack a string resume_gateway_url, with
\* the control frames that end or keep a session
UrlFrames ==
    [op : {0}, t : {"READY"}, s : {Some(1)}, sid : {Some(1)},
     url : {None, Some(ResumeUrl)}, d : {None}]
    \cup [op : {9}, t : {"none"}, s : {None}, sid : {None}, url : {None},
          d : {Some(FALSE), Some(TRUE)}]
    \cup [op : {1, 7, 10, 11}, t : {"none"}, s : {None}, sid : {None},
          url : {None}, d : {None}]

\* The session machine under the client loop, on these frames.
NextUrl ==
    \/ Gateway(UrlFrames)
    \/ Loop

UrlSpec == Init /\ [][NextUrl]_vars

(* ------------------------------ claims ----------------------------------- *)
\* a handshake payload (identify or resume) is the last thing sent
HandshakeSent == last_sent.op \in {2, 6}

\* C1: whenever an identify (op 2) is sent, session_id and sequence are both
\* None at that moment, whatever made the reconnect a non-resumed one.
C1_IdentifySentWithSessionCleared ==
    last_sent.op = 2 => (last_sent.at_sid = None /\ last_sent.at_seq = None)

\* C2: the timer branch declares a heartbeat-ACK timeout only when the
\* unacknowledged heartbeat of this connection was sent at least one full
\* heartbeat interval ago.
C2_TimeoutOnlyAfterFullInterval ==
    [][(HeartbeatTick /\ awaiting_heartbeat_ack) => hb_age >= heartbeat_interval_ms]_vars

\* C3: a timer tick taken while awaiting_heartbeat_ack is true starts a
\* reconnect (connection and timer dropped) and sends nothing: no second
\* heartbeat goes out on the old connection.
C3_TickWhileAwaitingReconnects ==
    [][(HeartbeatTick /\ awaiting_heartbeat_ack) =>
         /\ gpc' = "reconnect"
         /\ connection' = None
         /\ heartbeat' = None
         /\ ~pending_heartbeat'
         /\ ~awaiting_heartbeat_ack'
         /\ last_sent' = last_sent]_vars

\* C3 witness: a reconnect begun by the timer branch is running, the heartbeat
\* being the last payload sent.
C3_Witness == cause = "tick" /\ gpc = "reconnect" /\ last_sent.op = 1 /\ connection = None

\* C4: the first payload sent after an op 9 with d = false was processed is an
\* identify (never a resume or a heartbeat), sent with session_id and sequence
\* both None.
C4_IdentifyAfterInvalidSession ==
    last_sent.after_inv =>
        /\ last_sent.op = 2
        /\ last_sent.at_sid = None
        /\ last_sent.at_seq = None

\* C4 witness: that identify went out and the handshake succeeded.
C4_Witness == last_sent.after_inv /\ last_sent.op = 2 /\ last_sent.ok /\ connection # None

\* C5: in steady state, while the "s" values processed in this session were
\* strictly increasing, the tracked sequence is the largest of them.
C5_SequenceIsMaxSeen ==
    (connection # None /\ gpc # "inv_sleep" /\ max_s > 0) => sequence = Some(max_s)

\* C5 witness: a dispatch was just returned to the client after strictly
\* increasing "s" values: 1 (carried by the heartbeat sent since) and then the
\* largest one.
C5_Witness ==
    /\ cpc = "handle"
    /\ max_s = MaxSeq
    /\ sequence = Some(MaxSeq)
    /\ last_sent.op = 1
    /\ last_sent.seq = Some(1)

\* C6: the first handshake attempt of a reconnect that prefers resume sends a
\* resume exactly when session_id and sequence are both present, else an
\* identify; every resume carries the session_id and sequence held when it
\* is sent, neither of them null.
C6_FirstAttemptResumesIffResumable ==
    /\ (HandshakeSent /\ last_sent.first /\ last_sent.prefer) =>
           (last_sent.op = 6 <=> (last_sent.at_sid # None /\ last_sent.at_seq # None))
    /\ last_sent.op = 6 =>
           /\ last_sent.sid = last_sent.at_sid
           /\ last_sent.seq = last_sent.at_seq
           /\ last_sent.sid # None
           /\ last_sent.seq # None

\* C6 witness: a first attempt sent a resume and the handshake succeeded.
C6_Witness ==
    /\ last_sent.op = 6
    /\ last_sent.first
    /\ last_sent.prefer
    /\ last_sent.ok
    /\ connection # None

\* C7: within one reconnect at most one attempt sends a resume, only the first
\* attempt can, and after any failed attempt the reconnect no longer resumes.
C7_ResumeTriedOnce ==
    /\ resumes <= 1
    /\ (last_sent.op = 6 => last_sent.first)
    /\ (gpc = "reconnect" /\ tries > 0) => ~use_resume

\* C7 witness: a resume was sent and failed, and a later attempt of the same
\* reconnect sent an identify.
C7_Witness == resumes = 1 /\ tries > 0 /\ last_sent.op = 2 /\ ~last_sent.first

\* C8: in steady state a closed connection and a receive error both make
\* next_event reconnect, preferring resume, and return nothing to the caller.
C8_ReceiveFailureReconnects ==
    [][(ReceiveClosed \/ ReceiveError) =>
         (gpc' = "reconnect" /\ prefer_resume' /\ cpc' = "wait" /\ result' = "none")]_vars

\* C9: the loop of Client::start has ended only if Client::shutdown was
\* requested.
C9_LoopEndsOnlyOnShutdown == cpc = "done" => shutdown_requested

\* C10: once a call of Client::shutdown made during the loop has returned, a
\* loop suspended on the combined wait has its shutdown branch ready: it needs
\* no further gateway event to observe the request.
C10_ShutdownWakesTheWait == (spc = "done" /\ cpc = "wait") => notified = "fired"

\* a pass of reconnect's loop, failed or successful
SomeAttemptFails == \E why \in {"connect", "hello", "send"}, I \in Intervals, j \in JitterChoices :
                        AttemptFails(why, I, j)
SomeAttemptSucceeds == \E I \in Intervals, j \in JitterChoices : AttemptSucceeds(I, j)

\* C11: a handshake that does not resume and whose HELLO carries
\* heartbeat_interval I succeeds with an identify (op 2) as the payload sent
\* on the new connection, before any frame of the new session is processed,
\* and with the heartbeat timer armed with period I: the timer exists, I is
\* the stored interval, and every tick re-arms the timer one interval later.
C11_IdentifyFirstAndTimerArmed ==
    [][/\ \A I \in Intervals :
            ((\E j \in JitterChoices : AttemptSucceeds(I, j)) /\ ~use_resume) =>
                /\ last_sent'.op = 2
                /\ last_sent'.ok
                /\ connection' # None
                /\ heartbeat' # None
                /\ heartbeat_interval_ms' = I
                /\ max_s' = 0
                /\ event' = None
       /\ (HeartbeatTick /\ ~awaiting_heartbeat_ack) => heartbeat' = Some(heartbeat_interval_ms)
       /\ (connection # None /\ connection' # None) =>
              heartbeat_interval_ms' = heartbeat_interval_ms]_vars

\* C11 witness: a fresh handshake with the largest interval has just succeeded
\* by an identify; the timer's first tick is due and nothing was received.
C11_Witness ==
    /\ last_sent.op = 2
    /\ last_sent.ok
    /\ connection # None
    /\ heartbeat = Some(0)
    /\ heartbeat_interval_ms = MaxInterval
    /\ pending_heartbeat
    /\ sequence = None

\* C14: reconnect_attempts grows by exactly one on each failed handshake
\* attempt and is zero after each successful one; it is zero whenever the
\* Gateway holds a connection, and zero when a reconnect begins, so that the
\* first attempt of a reconnect (after a heartbeat timeout as after any other
\* cause) waits for no back-off: only an attempt that follows a failed one does.
\* (The two implications on attempts are written by contraposition, so that
\* the steps are matched against the attempts only where the effect is absent.)
C14_AttemptsCountFailures ==
    [][/\ connection' # None => reconnect_attempts' = 0
       /\ (gpc' = "reconnect" /\ tries' = 0) => (reconnect_attempts' = 0 /\ wait' = 0)
       /\ (gpc = "reconnect" /\ reconnect_attempts' # 0) => ~SomeAttemptSucceeds
       /\ (/\ gpc = "reconnect"
           /\ ~(/\ reconnect_attempts' = reconnect_attempts + 1
                /\ tries = 0 => wait' = 0
                /\ tries > 0 => wait' > 0)) => ~SomeAttemptFails]_vars

\* C14 witness: a reconnect failed as often as the bound allows and then
\* succeeded; the count is back at zero.
C14_Witness ==
    /\ connection # None
    /\ tries = MaxAttempts
    /\ reconnect_attempts = 0
    /\ last_sent.op \in {2, 6}
    /\ hb_age = 0

\* a text frame p is received and processed by next_event
FrameProcessed(p) ==
    \/ ReceiveDispatch(p)
    \/ ReceiveHeartbeatRequest(p)
    \/ ReceiveReconnect(p)
    \/ ReceiveInvalidSession(p)
    \/ ReceiveAck(p)
    \/ ReceiveIgnored(p)

\* C15: next_event returns a payload to its caller only for op 0; a frame of
\* any other opcode (1, 7, 9, 10, 11, unknown) is consumed inside the Gateway:
\* the caller stays in its wait and is handed nothing.
\* (The last conjunct is the contraposition of "a processed frame with
\* op # 0 leaves the caller waiting with nothing".)
C15_OnlyDispatchSurfaces ==
    [][/\ cpc' = "handle" => (event' # None /\ Val(event').op = 0)
       /\ event' # None => cpc' = "handle"
       /\ (gpc = "select" /\ ~(cpc' = "wait" /\ event' = None)) =>
             \A p \in Frames : p.op # 0 => ~FrameProcessed(p)]_vars

\* C15 witness: a heartbeat was sent and its ack (op 11) consumed, then a
\* MESSAGE_CREATE dispatch was returned to the client.
C15_Witness ==
    /\ cpc = "handle"
    /\ event # None
    /\ Val(event).op = 0
    /\ Val(event).t = "MESSAGE_CREATE"
    /\ last_sent.op = 1
    /\ ~awaiting_heartbeat_ack

\* C18: every payload received on the connection, whatever its opcode, is
\* handed to handle_event, whose first statement calls on_gateway_payload.
C18_EveryPayloadReachesOnGatewayPayload ==
    [][\A p \in Frames : FrameProcessed(p) =>
          (cpc' = "handle" /\ event' = Some(p))]_vars

\* a failed pass of reconnect's loop during the first connect
SomeBackoffAttemptFails ==
    \E why \in {"connect", "hello", "send"}, I \in Intervals, j \in JitterChoices :
        FailedAttempt(MaxBackoffAttempts, why, I, j)

\* C12: across the consecutive failed attempts of one reconnect, the back-off
\* slept before an attempt is never shorter than the one slept before the
\* previous attempt, and no back-off exceeds 60 seconds.
C12_BackoffMonotoneAndCapped ==
    [][SomeBackoffAttemptFails =>
         (wait' >= wait /\ wait' <= MAX_RECONNECT_BACKOFF * 1000)]_vars

\* the base of the back-off after n failures as the specification words it:
\* 2^n seconds, doubling per attempt, capped at 60 seconds; in milliseconds
DoublingCappedAt60(n) == IF 2 ^ n < 60 THEN (2 ^ n) * 1000 ELSE 60 * 1000

\* C13: the back-off slept before an attempt made after n >= 1 consecutive
\* failures is base(n) plus a jitter between 0 and 20% of base(n), where
\* base(n) = min(2^n s, 60 s); the attempt made after no failure sleeps nothing.
C13_BackoffIsBasePlusJitter ==
    [][SomeBackoffAttemptFails =>
         LET n == reconnect_attempts
             base == DoublingCappedAt60(n)
         IN  IF n = 0 THEN wait' = 0
             ELSE /\ wait' >= base
                  /\ (wait' - base) * 5 <= base]_vars

\* C13 witness: an attempt made after more than six failures has slept the
\* capped base of 60 s plus the whole 20% of jitter.
C13_Witness ==
    /\ gpc = "reconnect"
    /\ reconnect_attempts > 7
    /\ wait = 72 * 1000

\* the numbers of a sequence grow strictly from each element to the next
Increasing(q) == \A i, k \in DOMAIN q : i < k => q[i] < q[k]

\* the sequence numbers of the events a Receiver still holds
Buffered == IF rx = None THEN <<>> ELSE [i \in DOMAIN Val(rx).buf |-> Val(Val(rx).buf[i].sequence)]

Broadcast(e) ==
    /\ Len(calls') >= 3
    /\ SubSeq(calls', 1, 3) = <<"on_gateway_payload", "collectors.dispatch", "on_dispatch">>
    /\ handler_seen' = Some(Val(e.s))
    /\ rx # None =>
          /\ rx' # None
          /\ Val(rx').buf # <<>>
          /\ Val(rx').buf[Len(Val(rx').buf)] = from_gateway_payload(e)

C19_AtMostMaxItems ==
    [][/\ task'.max # None =>
            /\ task'.collected <= Val(task'.max)
            /\ Len(out'.q) <= task'.collected
            /\ (task'.collected = Val(task'.max) /\ task'.pc # "spawned") =>
                   (task'.pc = "done" /\ rx' = None)
       /\ task.pc = "done" => (task' = task /\ rx' = None /\ Len(out'.q) <= Len(out.q))]_vars

\* C19 witness: the collector took its N items, the consumer received them and
\* then saw the output closed, and later events were dispatched all the same.
C19_Witness ==
    /\ task.max = Some(MaxItems)
    /\ task.collected = MaxItems
    /\ task.pc = "done"
    /\ out.closed
    /\ out.last > 0
    /\ out.last < MaxEvents
    /\ handler_seen = Some(MaxEvents)

\* C20: a collector created with time = Some(D) puts no item on its output
\* once D has elapsed since it was created.
C20_NothingAfterTheTimeLimit ==
    [][(task.time # None /\ task'.collected > task.collected) => age < Val(task.time)]_vars

\* C21: a collector puts on its output only events of its target kind, also
\* when the filter would accept the event: a message collector only
\* MessageCreate events, a reaction collector only MessageReactionAdd /
\* MessageReactionRemove events; what it puts is the event it took.
C21_OnlyTargetKindDelivered ==
    [][out'.q # out.q /\ Len(out'.q) >= Len(out.q) =>
         /\ task.pc = "recv"
         /\ Val(rx).buf # <<>>
         /\ LET ev == Head(Val(rx).buf) IN
              /\ task.kind = "message" => ev.kind = "MESSAGE_CREATE"
              /\ task.kind = "reaction" =>
                     ev.kind \in {"MESSAGE_REACTION_ADD", "MESSAGE_REACTION_REMOVE"}
              /\ out'.q = Append(out.q, Val(ev.sequence))]_vars

\* C21 witness: a reaction collector put the first event on its output, took
\* the second without putting anything, and now holds a MessageCreate that its
\* filter would accept.
C21_Witness ==
    /\ task.kind = "reaction"
    /\ task.pc = "recv"
    /\ task.collected = 1
    /\ out.q = <<1>>
    /\ rx # None
    /\ ~Val(rx).lagged
    /\ Val(rx).buf # <<>>
    /\ Head(Val(rx).buf).kind = "MESSAGE_CREATE"
    /\ filter(Head(Val(rx).buf))
    /\ Head(Val(rx).buf).sequence = Some(MaxEvents)

\* C22: CollectorHub::dispatch never blocks and never fails, with no collector
\* as with a slow or a finished one: handle_event can always run and returns
\* to the loop, and the broadcast neither closes nor stops a collector whose
\* buffer it overruns.  A collector told that it lagged skips what it missed,
\* stays open with its output untouched, and then delivers the matching events
\* still in the buffer.
C22_DispatchNeverBlocksLagSkips ==
    [][/\ cpc = "handle" => ENABLED HandleEvent
       /\ HandleEvent =>
            /\ cpc' = "top"
            /\ result' = "none"
            /\ task' = task
            /\ out'.q = out.q
            /\ out'.closed = out.closed
            /\ rx = None => rx' = None
            /\ (rx # None /\ IsDispatch(Val(event))) =>
                  /\ rx' # None
                  /\ Len(Val(rx').buf) <= BroadcastCapacity
                  /\ Val(rx').buf[Len(Val(rx').buf)] = from_gateway_payload(Val(event))
                  /\ Val(rx').lagged = (Val(rx).lagged \/ Len(Val(rx).buf) = BroadcastCapacity)
       /\ (TaskRecv /\ Val(rx).lagged) =>
            /\ task' = task
            /\ rx' = Some([Val(rx) EXCEPT !.lagged = FALSE])
            /\ out' = out
       /\ (/\ TaskRecv
           /\ ~Val(rx).lagged
           /\ Head(Val(rx).buf).kind \in TargetKinds(task.kind)
           /\ Head(Val(rx).buf).data = Some("hit")
           /\ ~out.dropped) =>
               out'.q = Append(out.q, Val(Head(Val(rx).buf).sequence))]_vars

\* C22 witness: a message collector delivered the first event, then fell
\* behind: the broadcast of the last event overran its buffer and returned.
\* The collector is open, marked as lagging, and holds a matching event.
C22_Witness ==
    /\ cpc = "top"
    /\ calls = <<"on_gateway_payload", "collectors.dispatch", "on_dispatch",
                 "cache.cache_user", "on_message_create">>
    /\ task.kind = "message"
    /\ task.pc = "recv"
    /\ out.last = 1
    /\ rx # None
    /\ Val(rx).lagged
    /\ Len(Val(rx).buf) = BroadcastCapacity
    /\ Val(rx).buf[BroadcastCapacity].sequence = Some(MaxEvents)
    /\ Val(rx).buf[BroadcastCapacity].kind = "MESSAGE_CREATE"
    /\ filter(Val(rx).buf[BroadcastCapacity])

\* C23: once the consumer has dropped the collector, the task of the collector
\* ends no later than the next event broadcast on the hub, whatever the kind of
\* the event: a task that has taken every event broadcast so far, one of them
\* broadcast after the drop, is not waiting for more.
C23_TaskEndsAtNextBroadcastAfterDrop ==
    (out.after_drop /\ task.pc = "recv") => (Val(rx).lagged \/ Val(rx).buf # <<>>)

\* an event the collector is to deliver: of its target kind (MessageCreate for
\* a message collector, a reaction add / remove for a reaction collector), with
\* data that decodes and that the caller's filter accepts
Matches(kind, ev) ==
    /\ \/ kind = "message" /\ ev.kind = "MESSAGE_CREATE"
       \/ kind = "reaction" /\ ev.kind \in {"MESSAGE_REACTION_ADD", "MESSAGE_REACTION_REMOVE"}
    /\ ev.data = Some("hit")

\* what the task of an open collector does with the event it takes from the
\* Receiver: a matching event goes to the end of the output and counts, any
\* other event changes neither the output nor the count
TakesExactlyMatching ==
    (TaskRecv /\ ~Val(rx).lagged /\ ~out.dropped) =>
        LET ev == Head(Val(rx).buf) IN
          /\ IF Matches(task.kind, ev)
             THEN /\ out'.q = Append(out.q, Val(ev.sequence))
                  /\ task'.collected = task.collected + 1
             ELSE /\ out'.q = out.q
                  /\ task'.collected = task.collected
          /\ rx' # None => Val(rx').buf = Tail(Val(rx).buf)
          /\ Increasing(out'.q)

\* C24 as claimed: an open collector delivers exactly the matching events that
\* are broadcast, in broadcast order: every event broadcast while it is open
\* waits in its Receiver behind the earlier ones until the task takes it, and
\* the task delivers what it takes exactly when it matches.
C24_DeliversExactlyMatching ==
    [][/\ (HandleEvent /\ IsDispatch(Val(event)) /\ rx # None) =>
             (rx' # None /\ Val(rx').buf = Append(Val(rx).buf, from_gateway_payload(Val(event))))
       /\ TakesExactlyMatching]_vars

\* C24, amended: the same for the events the collector did not skip: a
\* broadcast to a Receiver that already holds as many events as the buffer has
\* room for displaces the oldest of them (the collector is told that it
\* lagged), and only then is an event lost to the collector.
C24_DeliversMatchingNotSkipped ==
    [][/\ (HandleEvent /\ IsDispatch(Val(event)) /\ rx # None) =>
             /\ rx' # None
             /\ IF Len(Val(rx).buf) < BroadcastCapacity
                THEN /\ Val(rx').buf = Append(Val(rx).buf, from_gateway_payload(Val(event)))
                     /\ Val(rx').lagged = Val(rx).lagged
                ELSE /\ Val(rx').buf = Append(Tail(Val(rx).buf), from_gateway_payload(Val(event)))
                     /\ Val(rx').lagged
       /\ TakesExactlyMatching]_vars

\* C24 witness: a message collector without limits delivered the first and the
\* last event and nothing for the one between them; it has taken all that was
\* broadcast and waits for more.
C24_Witness ==
    /\ task.kind = "message"
    /\ task.max = None
    /\ task.pc = "recv"
    /\ task.collected = 2
    /\ out.q = <<1, MaxEvents>>
    /\ handler_seen = Some(MaxEvents)
    /\ Val(rx).buf = <<>>
    /\ ~Val(rx).lagged

\* the heartbeat-ack frames
AckFrames == {p \in Frames : p.op = 11}

\* C25: processing a heartbeat-ack (op 11) leaves awaiting_heartbeat_ack false,
\* sends nothing, starts no reconnect and returns nothing to the caller; an ack
\* processed in the state the same ack leaves behind (flag false, sequence the
\* one the ack carries, if it carries one) changes no field of the Gateway.
C25_AckIdempotent ==
    [][\A p \in AckFrames : ReceiveAck(p) =>
          /\ ~awaiting_heartbeat_ack'
          /\ last_sent' = last_sent
          /\ gpc' = "top"
          /\ cpc' = "wait"
          /\ event' = None
          /\ <<connection', heartbeat', heartbeat_interval_ms', pending_heartbeat',
               session_id', resume_gateway_url', reconnect_attempts'>> =
             <<connection, heartbeat, heartbeat_interval_ms, pending_heartbeat,
               session_id, resume_gateway_url, reconnect_attempts>>
          /\ (~awaiting_heartbeat_ack /\ (p.s = None \/ p.s = sequence)) => gw' = gw]_vars

\* C25 witness: after a heartbeat that carried no sequence, frames were
\* processed whose "s" did not grow (the same frame twice, for one), the last
\* "s" being 1; the flag is false, so an ack was among them, nothing was sent
\* since the heartbeat and no heartbeat is requested.
C25_Witness ==
    /\ connection # None
    /\ gpc = "top"
    /\ ~awaiting_heartbeat_ack
    /\ ~pending_heartbeat
    /\ last_sent.op = 1
    /\ last_sent.seq = None
    /\ sequence = Some(1)
    /\ max_s = -1

\* C26: with cache_users = false, whatever calls of cache_user,
\* set_current_user, initialize and remove_user were made, user_count() is 0
\* and user(id) is None for every id; with cache_users = true,
\* set_current_user(u) makes current_user() and user(u.id) both return u.
C26_DisabledUserCacheStaysEmpty ==
    [][/\ ~cache_users' =>
            /\ user_count(users') = 0
            /\ \A id \in UserIds : user(users', id) = None
       /\ \A u \in Users : (SetCurrentUser(u) /\ cache_users) =>
            /\ current_user' = Some(u)
            /\ user(users', u.id) = Some(u)]_vars

\* C26 witness, user cache off: set_current_user or initialize has run (the
\* current user is known) and the user cache holds nothing.
C26_Witness ==
    /\ ~cache_users
    /\ current_user # None
    /\ user_count(users) = 0

\* C27: while the Gateway holds one connection, the tracked sequence never
\* decreases and is never reset from one processed frame to the next.  Left
\* aside, as the claim allows: the session that follows a non-resumed
\* reconnect until its first "s" (max_s = 0), and the clearing by an
\* invalid-session that is not resumable, which begins such a reconnect.
C27_SequenceNeverDecreasesInSession ==
    [][(/\ connection # None
        /\ connection' # None
        /\ sequence # None
        /\ max_s # 0
        /\ gpc' # "inv_sleep") =>
            (sequence' # None /\ Val(sequence') >= Val(sequence))]_vars

\* the HELLO frames
HelloFrames == {p \in Frames : p.op = 10}

\* what a frame that is ignored leaves alone, the sequence aside: the session,
\* the heartbeat flags, the timer and the connection; nothing is sent, no
\* reconnect begins, and next_event neither fails nor returns to its caller
IgnoredButForSequence ==
    /\ <<connection', heartbeat', heartbeat_interval_ms', awaiting_heartbeat_ack',
         pending_heartbeat', session_id', resume_gateway_url', reconnect_attempts'>> =
       <<connection, heartbeat, heartbeat_interval_ms, awaiting_heartbeat_ack,
         pending_heartbeat, session_id, resume_gateway_url, reconnect_attempts>>
    /\ last_sent' = last_sent
    /\ gpc' = "top"
    /\ cpc' = "wait"
    /\ result' = "none"
    /\ event' = None

\* C28 as claimed: a HELLO (op 10) processed in steady state changes no field
\* of the Gateway, the sequence included, sends nothing, starts no reconnect
\* and is no error.
C28_HelloChangesNothing ==
    [][\A p \in HelloFrames : FrameProcessed(p) =>
          (IgnoredButForSequence /\ sequence' = sequence)]_vars

\* C28, amended: the same, except that an integer "s" the HELLO carries is
\* stored as the sequence, as for a frame of any opcode.
C28_HelloChangesOnlySequence ==
    [][\A p \in HelloFrames : FrameProcessed(p) =>
          /\ IgnoredButForSequence
          /\ sequence' = IF p.s # None THEN p.s ELSE sequence]_vars

\* C28 witness: a heartbeat went out before any "s" was seen and is still
\* unacknowledged; the frame processed last was one that is ignored, no
\* heartbeat is requested, and the sequence is the largest "s".
C28_Witness ==
    /\ connection # None
    /\ gpc = "top"
    /\ awaiting_heartbeat_ack
    /\ ~pending_heartbeat
    /\ last_sent.op = 1
    /\ last_sent.seq = None
    /\ sequence = Some(MaxSeq)

\* the invalid-session frames that tell the session can be resumed
ResumableInvalidFrames == {p \in Frames : p.op = 9 /\ p.d = Some(TRUE)}

\* what follows an invalid-session with d = true once the fields are settled:
\* the fixed sleep begins on the old connection with nothing sent; session_id
\* and sequence stay as they are through the sleep and up to the end of the
\* first handshake attempt after it; that attempt resumes exactly when both
\* are present, and a resume it sends carries them
RetriesWithResume ==
    /\ \A p \in ResumableInvalidFrames : ReceiveInvalidSession(p) =>
          /\ gpc' = "inv_sleep"
          /\ prefer_resume'
          /\ last_sent' = last_sent
          /\ connection' = connection
    /\ (gpc = "inv_sleep" \/ (gpc = "reconnect" /\ cause = "op9" /\ tries = 0)) =>
          (session_id' = session_id /\ sequence' = sequence)
    /\ (gpc = "inv_sleep" /\ prefer_resume /\ gpc' # gpc) =>
          /\ gpc' = "reconnect"
          /\ cause' = "op9"
          /\ tries' = 0
          /\ use_resume' = (session_id # None /\ sequence # None)
    /\ (gpc = "reconnect" /\ cause = "op9" /\ prefer_resume /\ tries = 0
           /\ last_sent' # last_sent) =>
          /\ last_sent'.first
          /\ last_sent'.op = IF session_id # None /\ sequence # None THEN 6 ELSE 2
          /\ last_sent'.op = 6 => (last_sent'.sid = session_id /\ last_sent'.seq = sequence)

\* C29 as claimed: an invalid-session (op 9) with d = true leaves session_id
\* and sequence unchanged, and after the fixed delay the next handshake attempt
\* is a resume with those values when both are present.
C29_ResumableInvalidSessionKeepsAll ==
    [][/\ \A p \in ResumableInvalidFrames : ReceiveInvalidSession(p) =>
             (session_id' = session_id /\ sequence' = sequence)
       /\ RetriesWithResume]_vars

\* C29, amended: session_id is left unchanged and the sequence is not
\* cleared: it is the "s" of the invalid-session payload when that carries an
\* integer "s", else unchanged; the resume after the delay carries these.
C29_ResumableInvalidSessionKeepsSession ==
    [][/\ \A p \in ResumableInvalidFrames : ReceiveInvalidSession(p) =>
             /\ session_id' = session_id
             /\ sequence' = IF p.s # None THEN p.s ELSE sequence
       /\ RetriesWithResume]_vars

\* C29 witness: the reconnect that follows a resumable invalid-session has
\* made its first attempt, a resume carrying the session id and the largest
\* sequence, both still held (the send failed, so the reconnect still runs).
C29_Witness ==
    /\ gpc = "reconnect"
    /\ cause = "op9"
    /\ prefer_resume
    /\ tries = 1
    /\ last_sent.op = 6
    /\ last_sent.first
    /\ last_sent.sid = session_id
    /\ last_sent.seq = sequence
    /\ sequence = Some(MaxSeq)

\* C30: the Gateway holds at most one Connection.  A reconnect first drops
\* the Connection held (and the timer with it), and only a handshake attempt
\* made while none is held stores a new one; in steady state a Connection is
\* held.  A payload is sent either by a handshake attempt, on the Connection
\* it has just opened while none is held, or as a heartbeat on the Connection
\* held, which stays; and no frame is processed while none is held.
C30_OneConnectionReplacedOnReconnect ==
    [][/\ gpc' = "reconnect" => (connection' = None /\ heartbeat' = None)
       /\ gpc' \in {"top", "select", "inv_sleep"} => connection' # None
       /\ connection' # connection =>
             \/ connection' = None
             \/ connection = None /\ gpc = "reconnect" /\ HandshakeSent' /\ last_sent'.ok
       /\ last_sent' # last_sent =>
             IF gpc = "reconnect"
             THEN connection = None /\ HandshakeSent'
             ELSE last_sent'.op = 1 /\ connection # None /\ connection' = connection
       /\ (connection = None /\ gpc = "select") => \A p \in Frames : ~FrameProcessed(p)
       /\ connection = None => (event' = None /\ sequence' = sequence /\ session_id' = session_id)]_vars

\* C30 witness: a Connection was replaced: the reconnect resumed the session of
\* the old one, and a heartbeat carrying the sequence went out on the new one.
C30_Witness ==
    /\ connection # None
    /\ resumes = 1
    /\ last_sent.op = 1
    /\ last_sent.seq # None
    /\ awaiting_heartbeat_ack
    /\ gpc = "select"

\* the first frames open_session rejects: the connection closed before any
\* frame, a frame that is not op 10, a HELLO without an integer heartbeat_interval
BadFirstFrames ==
    {f \in FirstFrames : f = None \/ Val(f).op # 10 \/ Val(f).heartbeat_interval = None}

\* C31: a handshake attempt whose first frame is not a HELLO (op 10) with an
\* integer heartbeat_interval, or whose connection closed before any frame,
\* fails without sending identify or resume and leaves session_id, sequence
\* and the resume URL as they were; the Gateway stays inside reconnect with
\* no connection and one more failed attempt counted, so that the next pass
\* sleeps a back-off first, and neither Gateway::connect nor next_event
\* returns: the client's position and result do not move.
\* (Written by contraposition: a step inside reconnect without these effects
\* is not such an attempt.)
C31_BadHelloFailsSilentlyAndRetries ==
    [][(/\ gpc = "reconnect"
        /\ ~(/\ last_sent' = last_sent
             /\ session_id' = session_id
             /\ sequence' = sequence
             /\ resume_gateway_url' = resume_gateway_url
             /\ connection' = None
             /\ gpc' = "reconnect"
             /\ reconnect_attempts' = reconnect_attempts + 1
             /\ \A j \in JitterChoices : backoff_with_jitter(reconnect_attempts', j) > 0
             /\ cpc' = cpc
             /\ result' = "none"
             /\ event' = None)) =>
          \A f \in BadFirstFrames : ~(\E j \in JitterChoices : HandshakeFails(f, j))]_vars

\* C31 witness: inside a reconnect of an established session (session id,
\* sequence and resume URL known, last payload sent a heartbeat) one attempt
\* has failed before anything was sent, and the next one is due.
C31_Witness ==
    /\ gpc = "reconnect"
    /\ tries = 1
    /\ reconnect_attempts = 1
    /\ connection = None
    /\ session_id # None
    /\ sequence # None
    /\ resume_gateway_url # None
    /\ last_sent.op = 1
    /\ cpc = "wait"
    /\ result = "none"

\* the heartbeat requests
HeartbeatRequestFrames == {p \in Frames : p.op = 1}

\* C32: a heartbeat request (op 1) received in steady state marks a heartbeat
\* as pending and takes next_event back to the top of its loop on the same
\* connection and timer, with nothing sent and nothing returned, whether or
\* not an ack is outstanding; and from the top of the loop with a heartbeat
\* pending the Gateway's next move is the send of op 1 carrying the current
\* sequence (or the failure of that send, which ends next_event): until then
\* no frame is read, no tick is acted on and no reconnect begins.
C32_HeartbeatRequestAnsweredFirst ==
    [][/\ \A p \in HeartbeatRequestFrames : ReceiveHeartbeatRequest(p) =>
              /\ pending_heartbeat'
              /\ gpc' = "top"
              /\ <<connection', heartbeat', awaiting_heartbeat_ack', last_sent'>> =
                 <<connection, heartbeat, awaiting_heartbeat_ack, last_sent>>
              /\ sequence' = IF p.s # None THEN p.s ELSE sequence
              /\ cpc' = "wait"
              /\ event' = None
       /\ (gpc = "top" /\ pending_heartbeat /\ gpc' = "top") =>
              /\ pending_heartbeat'
              /\ <<connection', sequence', session_id', awaiting_heartbeat_ack', last_sent'>> =
                 <<connection, sequence, session_id, awaiting_heartbeat_ack, last_sent>>
              /\ event' = event
       /\ (gpc = "top" /\ pending_heartbeat /\ gpc' # "top") =>
              \/ /\ gpc' = "select"
                 /\ last_sent'.op = 1
                 /\ last_sent'.seq = sequence
                 /\ awaiting_heartbeat_ack'
                 /\ ~pending_heartbeat'
                 /\ <<connection', heartbeat', sequence'>> = <<connection, heartbeat, sequence>>
              \/ /\ gpc' = "idle"
                 /\ result' = "err"
                 /\ last_sent' = last_sent]_vars

\* C32 witness: a heartbeat request carrying the largest "s" was received
\* while the ack of an earlier heartbeat, sent under another sequence, has
\* been outstanding for some time; its answer is pending at the top of the loop.
C32_Witness ==
    /\ gpc = "top"
    /\ pending_heartbeat
    /\ awaiting_heartbeat_ack
    /\ hb_age >= 1
    /\ connection # None
    /\ last_sent.op = 1
    /\ last_sent.seq # sequence
    /\ sequence = Some(MaxSeq)

\* the calls of handle_event that write the cache, and the kind-specific hooks
CacheCalls == {"cache.initialize", "cache.cache_user"}
KindHooks == {"on_ready", "on_ready_supplemental", "on_message_create", "on_message_update",
              "on_message_delete"}

\* the kinds whose arm writes the cache when the data decodes
CachingKinds == {"READY", "MESSAGE_CREATE", "MESSAGE_UPDATE"}

\* C33: handle_event makes its calls in a fixed order.  on_gateway_payload is
\* the first call for every payload; for a dispatch the broadcast to the
\* Collector Hub is the second and on_dispatch the third; a cache write of
\* the kind's arm comes after these three and right before the kind's hook,
\* which is the last call; no call is made twice.  A kind whose data decodes
\* and whose arm writes the cache does write it, and the cache holds the
\* write when handle_event returns.  While an event is being handled the
\* Gateway is not polled: the event is handed over once, the sequence does
\* not move and nothing is sent, and the loop is back at its top, with no
\* event left, when the calls are complete.
C33_DispatchStepsInOrder ==
    [][cpc = "handle" =>
          LET c == calls'
              e == Val(event)
          IN  /\ cpc' = "top"
              /\ event' = None
              /\ <<sequence', last_sent', connection'>> = <<sequence, last_sent, connection>>
              /\ Len(c) >= 1
              /\ c[1] = "on_gateway_payload"
              /\ \A i, j \in DOMAIN c : c[i] = c[j] => i = j
              /\ IF e.op = 0 /\ e.t # "none"
                 THEN /\ Len(c) >= 3
                      /\ c[2] = "collectors.dispatch"
                      /\ c[3] = "on_dispatch"
                 ELSE Len(c) = 1
              /\ \A i \in DOMAIN c :
                    /\ c[i] \in CacheCalls => (i = 4 /\ Len(c) = 5 /\ c[5] \in KindHooks)
                    /\ c[i] \in KindHooks => (i = Len(c) /\ i > 3)
              /\ (e.op = 0 /\ e.t \in CachingKinds /\ e.d = Some("hit")) =>
                    /\ \E i \in DOMAIN c : c[i] \in CacheCalls
                    /\ cache_users => \E id \in UserIds : users'[id] # None
              /\ (e.op = 0 /\ e.t = "READY" /\ e.d = Some("hit")) =>
                    (c[Len(c)] = "on_ready" /\ current_user' # None)
              /\ (e.op = 0 /\ e.t = "MESSAGE_CREATE" /\ e.d = Some("hit")) =>
                    c[Len(c)] = "on_message_create"]_vars

\* C33 witness: a READY whose user decodes has been handled with the user
\* cache on, after a message whose author was cached: the five calls of the
\* READY are logged in order, the current user is set and both users are
\* cached; the loop is back at its top.
C33_Witness ==
    /\ cpc = "top"
    /\ event = None
    /\ calls = <<"on_gateway_payload", "collectors.dispatch", "on_dispatch",
                 "cache.initialize", "on_ready">>
    /\ cache_users
    /\ current_user = Some(ReadyUser)
    /\ users[Author.id] = Some(Author)
    /\ users[ReadyUser.id] = Some(ReadyUser)

\* C34 as claimed: after a handshake the first heartbeat goes out within a
\* tenth of the heartbeat interval, and each later heartbeat one full
\* interval after the one before.  The Gateway asks itself for a heartbeat
\* in two places, the end of the handshake and the timer branch; the next
\* heartbeat comes with the timer's next tick, so at both places the next
\* tick has to be one interval ahead (less the tenth the first heartbeat may
\* have been delayed by).
C34_HeartbeatsAFullIntervalApart ==
    [][((gpc = "reconnect" \/ (gpc = "select" /\ heartbeat = Some(0)))
        /\ ~pending_heartbeat /\ pending_heartbeat' /\ connection' # None
        /\ heartbeat' # heartbeat) =>
          10 * Val(heartbeat') >= 9 * heartbeat_interval_ms']_vars

\* C35: a collector created with time = Some(D) always comes to its end:
\* whatever is or is not broadcast, whether or not max is reached, its task
\* ends, the output closes, and the consumer that keeps calling next() is
\* returned None (which is also what ends collect()).
C35_TimedCollectorCloses ==
    (task.pc # "none" /\ task.time # None) ~> (task.pc = "done" /\ rx = None /\ out.closed)

\* C35 witness: a collector with a time limit and without max was closed to
\* its consumer after the whole window had passed, without ever having been
\* broadcast an event it delivered.
C35_Witness ==
    /\ task.pc = "done"
    /\ task.time = Some(MaxWindow)
    /\ task.max = None
    /\ task.deadline = Some(0)
    /\ task.collected = 0
    /\ out.closed
    /\ out.q = <<>>
    /\ out.last = 0
    /\ age >= MaxWindow

\* C36: a successful handshake leaves awaiting_heartbeat_ack false and
\* pending_heartbeat true, whatever the flags of the previous connection
\* were; and for as long as the identify or resume is the last payload sent
\* on the connection held, the heartbeat stays pending, no ack is awaited and
\* no inbound frame is processed (the sequence and the session do not move,
\* nothing is handed to the caller, no reconnect begins): the next payload
\* sent is the heartbeat.
C36_HandshakeThenHeartbeatFirst ==
    [][/\ (gpc = "reconnect" /\ connection' # None) =>
              /\ ~awaiting_heartbeat_ack'
              /\ pending_heartbeat'
              /\ last_sent'.op \in {2, 6}
              /\ last_sent'.ok
       /\ (connection' # None /\ last_sent'.op \in {2, 6}) =>
              /\ pending_heartbeat'
              /\ ~awaiting_heartbeat_ack'
              /\ gpc' \in {"idle", "top"}
              /\ event' = None
       /\ (connection # None /\ last_sent.op \in {2, 6}) =>
              /\ <<sequence', session_id', resume_gateway_url', connection'>> =
                 <<sequence, session_id, resume_gateway_url, connection>>
              /\ gpc' # "reconnect"
              /\ last_sent' # last_sent => (last_sent'.op = 1 /\ last_sent'.seq = sequence)]_vars

\* C36 witness: a session was resumed on a new connection from inside
\* next_event; the resume is the last payload sent, the heartbeat is pending
\* and no ack is awaited, at the top of the loop.
C36_Witness ==
    /\ connection # None
    /\ last_sent.op = 6
    /\ last_sent.ok
    /\ pending_heartbeat
    /\ ~awaiting_heartbeat_ack
    /\ gpc = "top"
    /\ cpc = "wait"
    /\ sequence = Some(MaxSeq)

\* C37: in every state the Gateway holds a connection exactly if it holds a
\* heartbeat timer.  Gateway::shutdown leaves it with neither and with both
\* heartbeat flags false; next_event called after that returns an error and
\* opens nothing: no handshake attempt is made, nothing is sent, the Gateway
\* stays without connection and timer.
C37_ConnectionAndTimerTogether ==
    [][/\ (connection' = None) <=> (heartbeat' = None)
       /\ (cpc # "done" /\ cpc' = "done" /\ result' = "ok") =>
              /\ connection' = None
              /\ heartbeat' = None
              /\ ~awaiting_heartbeat_ack'
              /\ ~pending_heartbeat'
       /\ (cpc = "done" /\ result = "ok") =>
              /\ connection' = None
              /\ heartbeat' = None
              /\ gpc' \in {"idle", "err"}
              /\ <<tries', last_sent', reconnect_attempts'>> = <<tries, last_sent, reconnect_attempts>>
              /\ NextEventAfterShutdown => gpc' = "err"]_vars

\* C37 witness: a Gateway that had a session and an unacknowledged heartbeat
\* was shut down with its close frame sent, and next_event, called on it
\* afterwards, returned its error.
C37_Witness ==
    /\ cpc = "done"
    /\ result = "ok"
    /\ gpc = "err"
    /\ connection = None
    /\ heartbeat = None
    /\ ~awaiting_heartbeat_ack
    /\ ~pending_heartbeat
    /\ last_sent.op = 1
    /\ heartbeat_interval_ms = MaxInterval

\* a pass of reconnect's loop is made: open_session connects to SessionUrl
ConnectionAttempt == gpc = "reconnect" /\ (tries' # tries \/ connection' # None)

\* every attempt connects to the resume URL held, and to the default URL
\* when none is held
ConnectsToUrlHeld ==
    ConnectionAttempt =>
        SessionUrl = IF resume_gateway_url = None THEN DEFAULT_GATEWAY_URL ELSE ResumeUrl

Range(q) == {q[i] : i \in DOMAIN q}

\* what a Receiver holds (nothing when there is none)
Held(r) == IF r = None THEN {} ELSE Range(Val(r).buf)

\* C39: a collector is never handed an event of before its creation.  What
\* its Receiver holds after a step it held before the step or is the event
\* handle_event dispatches in that step to the Receiver that exists: so a
\* new Receiver holds nothing, and only what is dispatched after the
\* subscription gets in.  What the output holds after a step it held before
\* or is the item the task took from the head of the Receiver in that step.
\* And a dispatch made while no Receiver exists leaves none: the event is
\* gone, handle_event goes on to on_dispatch and returns, the loop runs on
\* without error.
C39_OnlyEventsAfterSubscription ==
    [][/\ \A ev \in Held(rx') :
              \/ ev \in Held(rx)
              \/ /\ rx # None
                 /\ cpc = "handle"
                 /\ cpc' = "top"
                 /\ ev = from_gateway_payload(Val(event))
       /\ \A item \in Range(out'.q) :
              \/ item \in Range(out.q)
              \/ /\ rx # None
                 /\ task.pc = "recv"
                 /\ Val(rx).buf # <<>>
                 /\ item = Val(Head(Val(rx).buf).sequence)
       /\ out'.last # out.last => (out.q # <<>> /\ out'.last = Head(out.q))
       /\ (cpc = "handle" /\ cpc' = "top" /\ rx = None) =>
              /\ rx' = None
              /\ out' = out
              /\ task' = task
              /\ result' = "none"
              /\ Val(event).t # "none" =>
                    (Len(calls') >= 3 /\ calls'[2] = "collectors.dispatch"
                     /\ calls'[3] = "on_dispatch"
                     /\ handler_seen' = Some(Val(Val(event).s)))]_vars

\* C39 witness: the handler has seen every event; the message collector that
\* exists was delivered exactly one of them, the last, which waits on its
\* output, and its Receiver holds nothing more.
C39_Witness ==
    /\ task.kind = "message"
    /\ task.pc = "recv"
    /\ task.collected = 1
    /\ out.q = <<MaxEvents>>
    /\ out.last = 0
    /\ rx # None
    /\ Val(rx).buf = <<>>
    /\ ~Val(rx).lagged
    /\ handler_seen = Some(MaxEvents)
====
